---------------------------- MODULE Spec2Model ----------------------------
(***************************************************************************)
(* A model of the clox virtual-machine core: the byte buffer, the code     *)
(* block and its reader, the chunk and its reader, the disassembler and    *)
(* the source stream.                                                      *)
(*                                                                         *)
(* Unsigned machine integers (size_t, uint64_t).  The code computes in     *)
(* 64-bit unsigned arithmetic, which wraps.  A value v is represented by   *)
(* the integer congruent to v modulo 2^64 that lies in [-2^63, 2^63): the  *)
(* small values are themselves and SIZE_MAX is -1, SIZE_MAX - 1 is -2, and *)
(* so on.  Addition and subtraction are then the plain ones (every value   *)
(* of the model is small in magnitude) and the unsigned comparisons are    *)
(* ULt and ULe below.                                                      *)
(***************************************************************************)
EXTENDS Integers, Sequences, FiniteSets, TLC

VARIABLES
    buffer,     \* the CloxBuffer_t under test
    calls,      \* how many operations were called on the byte buffer so far
    codeBlock,  \* the CloxCodeBlock_t under test
    reader,     \* the CloxCodeBlockReader_t under test
    got,        \* the bytes the reader under test has returned so far
    dpc,        \* where cloxDisassembleCodeBlock stands: "idle", "loop", "done"
    out,        \* what the disassembler has written to its stream
    chunk,      \* the CloxChunk_t under test
    chunkReader,\* the CloxChunkReader_t under test
    cpc,        \* where the chunk's test program stands
    given,      \* the bytes handed to cloxChunkWrite and cloxChunkPush, in order
    sourceStream,\* the CloxSourceStream_t under test, with its source buffer
    content,    \* the bytes of the text or of the file the stream was made over
    file,       \* the FILE the stream reads: its position and its end-of-file flag
    reads,      \* what the calls of cloxSourceStreamRead have returned so far
    opCode,     \* the code the last cloxGetOpCodeInfo was called with
    opCodeInfo, \* the CloxOpCodeInfo_t the last cloxGetOpCodeInfo filled
    before,     \* the operation called before the last one on the stream, and what it returned
    fcloses,    \* how many times fclose was called on the FILE of the stream
    deleted,    \* whether cloxDeleteSourceStream has freed the stream
    again,      \* parity of the number of cloxSourceStreamRead calls of a caller that never stops
    pushed,     \* the bytes pushed on the byte buffer used as a stack, oldest first
    was,        \* the byte buffer before the last of these pushes
    bufferReader, \* the reader created over the byte buffer
    frees,      \* the number of free() calls made on the byte buffer's array
    ownerGone,  \* whether cloxDeleteBuffer was called on the byte buffer
    utf8,       \* the call of the UTF-8 decoder or encoder: its arguments and results
    getChar,    \* the call of cloxSourceBufferGetChar: its position, what *outOffset held before and holds after
    load,       \* cloxCreateSourceBufferFromStream: the file, the data array and the position of the call
    readerArray, \* the array a code block reader holds: its bytes at creation, whether the block released it
    fatal,      \* "" while the process runs, else the message of the abort
    op,         \* the last operation called
    ret         \* what the last operation returned

bufVars == <<buffer, calls>>
cbVars == <<codeBlock>>
rdVars == <<reader, got>>
dsVars == <<dpc, out>>
ckVars == <<chunk, chunkReader, cpc, given>>
ssVars == <<sourceStream, content, file, reads>>
ocVars == <<opCode, opCodeInfo>>
hsVars == <<before>>
clVars == <<fcloses, deleted>>
lvVars == <<again>>
skVars == <<pushed, was>>
brVars == <<bufferReader, frees, ownerGone>>
u8Vars == <<utf8>>
gcVars == <<getChar>>
ldVars == <<load>>
raVars == <<readerArray>>
vars == <<readerArray, load, getChar, utf8, bufferReader, frees, ownerGone, pushed, was, again, fcloses, deleted, before, opCode, opCodeInfo, buffer, calls, codeBlock, reader, got, dpc, out, chunk, chunkReader, cpc, given,
          sourceStream, content, file, reads, fatal, op, ret>>

\* what the operations of one component leave alone
othersOfBuffer == <<cbVars, rdVars, dsVars, ckVars, ssVars, ocVars, hsVars, clVars, lvVars, skVars, brVars, u8Vars, gcVars, ldVars, raVars>>
othersOfCodeBlock == <<bufVars, rdVars, dsVars, ckVars, ssVars, ocVars, hsVars, clVars, lvVars, skVars, brVars, u8Vars, gcVars, ldVars, raVars>>
othersOfReader == <<bufVars, cbVars, dsVars, ckVars, ssVars, ocVars, hsVars, clVars, lvVars, skVars, brVars, u8Vars, gcVars, ldVars, raVars>>
othersOfDisasm == <<bufVars, cbVars, got, ckVars, ssVars, ocVars, hsVars, clVars, lvVars, skVars, brVars, u8Vars, gcVars, ldVars, raVars>>
othersOfChunk == <<bufVars, cbVars, reader, dsVars, ssVars, ocVars, hsVars, clVars, lvVars, skVars, brVars, u8Vars, gcVars, ldVars, raVars>>
othersOfStream == <<bufVars, cbVars, rdVars, dsVars, ckVars, ocVars, clVars, lvVars, skVars, brVars, u8Vars, gcVars, ldVars, raVars>>
othersOfClose == <<bufVars, cbVars, rdVars, dsVars, ckVars, ocVars, lvVars, skVars, brVars, u8Vars, gcVars, ldVars, raVars>>

(***************************************************************************)
(* Bounds of the model.                                                    *)
(***************************************************************************)
\* the largest block the allocator grants, in bytes
MaxAlloc == 24
\* the most operations called on one byte buffer
MaxCalls == 10
\* the byte values pushed are 1..MaxByte
MaxByte == 2

(***************************************************************************)
(* Program constants.                                                      *)
(***************************************************************************)
\* sizeof(int*) of a 64-bit build
CLOX_SIZEOF_WORD_PTR == 8

\* the largest byte
BYTE_MAX == 255

\* A pointer is NULL or the address of the block its container owns.
NULL == "NULL"
BLOCK == "BLOCK"
\* an indeterminate byte (what realloc leaves in the bytes it adds): a value
\* that is no byte
Junk == BYTE_MAX + 1

Bytes == 1..MaxByte

\* a < b and a <= b of two unsigned values
ULt(a, b) == IF (a < 0) = (b < 0) THEN a < b ELSE b < 0
ULe(a, b) == a = b \/ ULt(a, b)

\* ((size + alignment - 1) & ~(alignment - 1)), alignment a power of two
alignto(size, alignment) == ((size + alignment - 1) \div alignment) * alignment

clox_AdjustBufferCapacity(capacity) == alignto(capacity, CLOX_SIZEOF_WORD_PTR)

\* n zero bytes, what calloc returns
Zeros(n) == [i \in 1..n |-> 0]

\* Whether the allocator grants a block of n bytes (n unsigned, n # 0).
CanAlloc(n) == n > 0 /\ n <= MaxAlloc

\* The bytes of a block of mem reallocated to n bytes.
Realloced(mem, n) ==
    [i \in 1..n |-> IF i <= Len(mem) THEN mem[i] ELSE Junk]

(***************************************************************************)
(* Byte buffer (lib/vm/buffer.c).  A buffer is [array, count, capacity,    *)
(* mem]: array its pointer (NULL or BLOCK), mem the bytes of the block.    *)
(* An operation yields [b |-> the buffer after it, fatal |-> "" or the     *)
(* message it aborted with].                                               *)
(***************************************************************************)
\* A size_t converted to uint32_t.  The sizes of this model that are not
\* negative are below 2^31 and convert to themselves; a negative one stands
\* for 2^64 - k with a small k and converts to 2^32 - k, which is a size
\* beyond what the allocator grants: Huge stands for all of those.
Huge == MaxAlloc + CLOX_SIZEOF_WORD_PTR
U32(n) == IF n >= 0 THEN n ELSE Huge

Ok(b) == [b |-> b, fatal |-> ""]
Fail(b, msg) == [b |-> b, fatal |-> msg]

\* calloc(0, 1) and realloc(p, 0) may return NULL or a block of no bytes
ZeroSizeResults == {NULL, BLOCK}

EmptyBlock == [array |-> NULL, count |-> 0, capacity |-> 0, mem |-> <<>>]

\* a source location: character offset, column, line
ZeroLocation == [ch |-> 0, co |-> 0, ln |-> 0]

\* no stream was created, no file was opened
NoStream == [isInitialized |-> FALSE, isOpen |-> FALSE, stream |-> NULL, encoding |-> "ASCII",
             data |-> <<>>, size |-> 0, streamLocation |-> ZeroLocation,
             beginLocation |-> ZeroLocation, forwardLocation |-> ZeroLocation]
NoFile == [pos |-> 0, eof |-> FALSE]
\* no operation was called on the stream before the last one
NoCall == [op |-> "", ret |-> 0]

\* the CloxOpCodeInfo_t of a caller that has not called cloxGetOpCodeInfo yet
NoInfo == [name |-> "", func |-> "", code |-> 0, kind |-> 0]
\* no call of the UTF-8 functions yet: the bytes str, the length strlen, the
\* codepoint uc, what the encoder returned, what the decoder returned and *dst
NoUtf8 == [str |-> <<>>, strlen |-> 0, uc |-> -1, written |-> 0, n |-> 0, dst |-> -1]
\* no call of cloxSourceBufferGetChar yet
NoGetChar == [position |-> 0, prior |-> 0, offset |-> 0]
\* no call of cloxCreateSourceBufferFromStream yet
NoLoad == [size |-> 0, text |-> <<>>, data |-> <<>>, fpos |-> 0, pc |-> "none", stored |-> {}]
\* no array is held by a code block reader yet
NoArray == [mem |-> <<>>, released |-> FALSE, held |-> <<>>]
\* no reader was created over the byte buffer yet
NoBufferReader == [array |-> NULL, count |-> 0, index |-> 0, state |-> "none"]
\* a reader that was not initialised yet
NoReader == [array |-> NULL, count |-> 0, index |-> 0, live |-> FALSE]

clox_InitBuffer(b, capacity, zeroSize) ==
    IF capacity # 0
    THEN LET cap == clox_AdjustBufferCapacity(capacity) IN
         IF cap = 0
         THEN IF zeroSize = NULL
              THEN Fail(b, "cannot allocate memory")
              ELSE Ok([array |-> BLOCK, count |-> 0, capacity |-> 0, mem |-> <<>>])
         ELSE IF CanAlloc(cap)
              THEN Ok([array |-> BLOCK, count |-> 0, capacity |-> cap, mem |-> Zeros(cap)])
              ELSE Fail(b, "cannot allocate memory")
    ELSE Ok([array |-> NULL, count |-> 0, capacity |-> 0, mem |-> <<>>])

cloxBufferResize(b, newCapacity, zeroSize) ==
    IF newCapacity = 0
    THEN Ok([b EXCEPT !.array = NULL, !.mem = <<>>, !.count = 0, !.capacity = 0])
    ELSE LET cap == clox_AdjustBufferCapacity(newCapacity) IN
         IF cap # b.capacity
         THEN IF b.array # NULL
              THEN IF cap = 0
                   THEN IF zeroSize = NULL
                        THEN Fail([b EXCEPT !.mem = <<>>], "cannot reallocate memory")
                        ELSE Ok([b EXCEPT !.mem = <<>>,
                                          !.count = IF ULt(cap, b.count) THEN cap - 1 ELSE b.count,
                                          !.capacity = cap])
                   ELSE IF CanAlloc(cap)
                        THEN Ok([b EXCEPT !.mem = Realloced(b.mem, cap),
                                          !.count = IF ULt(cap, b.count) THEN cap - 1 ELSE b.count,
                                          !.capacity = cap])
                        ELSE Fail(b, "cannot reallocate memory")
              ELSE clox_InitBuffer(b, cap, zeroSize)
         ELSE Ok(b)

cloxBufferExpand(b, offset, zeroSize) ==
    IF b.capacity # -1
    THEN cloxBufferResize(b, b.capacity + offset, zeroSize)
    ELSE Fail(b, "buffer overflow")

cloxBufferShrink(b, offset, zeroSize) ==
    IF ULt(0, b.capacity)
    THEN cloxBufferResize(b, b.capacity - offset, zeroSize)
    ELSE Fail(b, "buffer underflow")

clox_BufferGrow(b, zeroSize) ==
    LET offset == IF b.capacity # 0 THEN b.capacity \div 2 ELSE CLOX_SIZEOF_WORD_PTR
    IN cloxBufferExpand(b, offset, zeroSize)

\* what reading a cell yields: the byte stored, any byte when indeterminate
ReadCell(c) == IF c = Junk THEN {0} \cup Bytes ELSE {c}

(***************************************************************************)
(* The byte buffer's operations as actions.                                *)
(***************************************************************************)
\* the capacities a buffer is created with
InitCapacities == {0, 1, CLOX_SIZEOF_WORD_PTR, CLOX_SIZEOF_WORD_PTR + 1}
\* the arguments of a resize: 0, small sizes, and the largest sizes
ResizeArgs == {0, 1, CLOX_SIZEOF_WORD_PTR, MaxAlloc, MaxAlloc + 1, -1, -CLOX_SIZEOF_WORD_PTR}
\* the offsets of an expand or a shrink
Offsets == {0, 1, CLOX_SIZEOF_WORD_PTR, CLOX_SIZEOF_WORD_PTR + 1, MaxAlloc}
\* the bytes pushed into the byte buffer
BufferBytes == {1}

Running == fatal = ""

BufferApply(name, r) ==
    /\ calls < MaxCalls
    /\ calls' = calls + 1
    /\ buffer' = r.b
    /\ fatal' = r.fatal
    /\ op' = name
    /\ ret' = 0
    /\ UNCHANGED othersOfBuffer

BufferResize ==
    /\ Running
    /\ \E n \in ResizeArgs, z \in ZeroSizeResults :
          BufferApply("cloxBufferResize", cloxBufferResize(buffer, n, z))

BufferExpand ==
    /\ Running
    /\ \E o \in Offsets, z \in ZeroSizeResults :
          BufferApply("cloxBufferExpand", cloxBufferExpand(buffer, o, z))

BufferShrink ==
    /\ Running
    /\ \E o \in Offsets, z \in ZeroSizeResults :
          BufferApply("cloxBufferShrink", cloxBufferShrink(buffer, o, z))

\* buffer->array[buffer->count++] = value, after the grow
cloxBufferPush(b, value, zeroSize) ==
    LET g == IF ULe(b.capacity, b.count) THEN clox_BufferGrow(b, zeroSize) ELSE Ok(b) IN
    IF g.fatal # ""
    THEN g
    ELSE IF g.b.array # NULL /\ g.b.count >= 0 /\ g.b.count < Len(g.b.mem)
         THEN Ok([g.b EXCEPT !.mem[g.b.count + 1] = value, !.count = g.b.count + 1])
         ELSE Fail(g.b, "memory fault")

BufferPush ==
    /\ Running
    /\ \E v \in BufferBytes, z \in ZeroSizeResults :
          BufferApply("cloxBufferPush", cloxBufferPush(buffer, v, z))

BufferPop ==
    /\ Running
    /\ calls < MaxCalls
    /\ calls' = calls + 1
    /\ IF ULt(0, buffer.count)
       THEN IF buffer.array # NULL /\ buffer.count >= 1 /\ buffer.count <= Len(buffer.mem)
            THEN /\ \E v \in ReadCell(buffer.mem[buffer.count]) : ret' = v
                 /\ buffer' = [buffer EXCEPT !.count = buffer.count - 1]
                 /\ fatal' = ""
            ELSE /\ ret' = 0
                 /\ buffer' = [buffer EXCEPT !.count = buffer.count - 1]
                 /\ fatal' = "memory fault"
       ELSE /\ ret' = 0
            /\ buffer' = buffer
            /\ fatal' = "buffer underflow"
    /\ op' = "cloxBufferPop"
    /\ UNCHANGED othersOfBuffer

InitBuffer ==
    /\ \E c \in InitCapacities, z \in ZeroSizeResults :
          LET r == clox_InitBuffer(EmptyBlock, c, z)
          IN buffer = r.b /\ fatal = r.fatal
    /\ calls = 0
    /\ readerArray = NoArray
    /\ load = NoLoad
    /\ getChar = NoGetChar
    /\ utf8 = NoUtf8
    /\ bufferReader = NoBufferReader
    /\ frees = 0
    /\ ownerGone = FALSE
    /\ pushed = <<>>
    /\ was = EmptyBlock
    /\ again = 0
    /\ fcloses = 0
    /\ deleted = FALSE
    /\ before = NoCall
    /\ opCode = 0
    /\ opCodeInfo = NoInfo
    /\ op = "cloxCreateBuffer"
    /\ ret = 0
    /\ codeBlock = EmptyBlock
    /\ reader = NoReader
    /\ got = <<>>
    /\ dpc = "idle"
    /\ out = <<>>
    /\ chunk = EmptyBlock
    /\ chunkReader = NoReader
    /\ cpc = "write"
    /\ given = <<>>
    /\ sourceStream = NoStream
    /\ content = <<>>
    /\ file = NoFile
    /\ reads = <<>>

NextBuffer ==
    \/ BufferResize
    \/ BufferExpand
    \/ BufferShrink
    \/ BufferPush
    \/ BufferPop

SpecBuffer == InitBuffer /\ [][NextBuffer]_vars

(***************************************************************************)
(* C1: after any sequence of create, resize, expand, shrink, push and pop  *)
(* that does not abort, count <= capacity and capacity is 0 or a multiple  *)
(* of the word-pointer size.                                               *)
(***************************************************************************)
C1_CountWithinCapacity ==
    Running => /\ ULe(buffer.count, buffer.capacity)
               /\ buffer.capacity % CLOX_SIZEOF_WORD_PTR = 0

(***************************************************************************)
(* Code block (lib/vm/code_block.c), a record of the same shape.           *)
(***************************************************************************)
CLOX_CODE_BLOCK_GROWING_FACTOR == 2

cloxAlignToWordPtr(size) == alignto(size, CLOX_SIZEOF_WORD_PTR)

cloxInitCodeBlock(b, capacity, zeroSize) ==
    IF capacity # 0
    THEN LET cap == cloxAlignToWordPtr(capacity) IN
         IF cap = 0
         THEN IF zeroSize = NULL
              THEN Fail(b, "cannot allocate memory")
              ELSE Ok([array |-> BLOCK, count |-> 0, capacity |-> 0, mem |-> <<>>])
         ELSE IF CanAlloc(cap)
              THEN Ok([array |-> BLOCK, count |-> 0, capacity |-> cap, mem |-> Zeros(cap)])
              ELSE Fail(b, "cannot allocate memory")
    ELSE Ok(EmptyBlock)

cloxFreeCodeBlock(b) == EmptyBlock

\* redim is the checked realloc: it aborts when realloc returns NULL
cloxCodeBlockResize(b, newCapacity, zeroSize) ==
    IF b.capacity # 0
    THEN IF newCapacity # 0
         THEN LET cap == cloxAlignToWordPtr(newCapacity)
                  cnt == IF ULe(cap, b.count) THEN cap - 1 ELSE b.count
              IN IF cap = 0
                 THEN IF zeroSize = NULL
                      THEN Fail([b EXCEPT !.mem = <<>>], "cannot reallocate memory")
                      ELSE Ok([b EXCEPT !.mem = <<>>, !.count = cnt, !.capacity = cap])
                 ELSE IF CanAlloc(cap)
                      THEN Ok([b EXCEPT !.mem = Realloced(b.mem, cap), !.count = cnt,
                                        !.capacity = cap])
                      ELSE Fail(b, "cannot reallocate memory")
         ELSE Ok(cloxFreeCodeBlock(b))
    ELSE cloxInitCodeBlock(b, newCapacity, zeroSize)

cloxCodeBlockExpand(b, offset, zeroSize) ==
    cloxCodeBlockResize(b, b.capacity + U32(offset), zeroSize)

cloxCodeBlockShrink(b, offset, zeroSize) ==
    cloxCodeBlockResize(b, b.capacity - U32(offset), zeroSize)

clox_CodeBlockGrow(b, zeroSize) ==
    cloxCodeBlockResize(b, b.capacity * CLOX_CODE_BLOCK_GROWING_FACTOR, zeroSize)

\* Whether array[index] is a byte of the block the array points to.
InArray(b, index) == b.array # NULL /\ index >= 0 /\ index < Len(b.mem)

\* return codeBlock->array[codeBlock->count++] = value, after the grow; a
\* store outside the array is a memory fault
cloxCodeBlockPush(b, value, zeroSize) ==
    LET g == IF ULe(b.capacity, b.count) THEN clox_CodeBlockGrow(b, zeroSize) ELSE Ok(b) IN
    IF g.fatal # ""
    THEN g
    ELSE IF InArray(g.b, g.b.count)
         THEN Ok([g.b EXCEPT !.mem[g.b.count + 1] = value, !.count = g.b.count + 1])
         ELSE Fail(g.b, "memory fault")

\* mem with the n bytes of src copied to its start: bufcpy(array, buffer, n)
bufcpy(mem, src) ==
    [i \in 1..Len(mem) |-> IF i <= Len(src) THEN src[i] ELSE mem[i]]

\* bufcpy asserts dest != NULL: a build with assertions aborts there
cloxCodeBlockWrite(b, src, zeroSize, assertions) ==
    LET n == Len(src)
        g == IF ULe(b.capacity, b.count + n)
             THEN cloxCodeBlockExpand(b, (b.count + n) - b.capacity, zeroSize)
             ELSE Ok(b)
    IN IF g.fatal # ""
       THEN g
       ELSE IF g.b.array = NULL
            THEN IF assertions
                 THEN Fail(g.b, "assertion failed")
                 ELSE IF n = 0 THEN g ELSE Fail(g.b, "memory fault")
            ELSE IF n <= Len(g.b.mem)
                 THEN Ok([g.b EXCEPT !.mem = bufcpy(g.b.mem, src)])
                 ELSE Fail(g.b, "memory fault")

(***************************************************************************)
(* The code block's operations as actions.                                 *)
(***************************************************************************)
\* the bytes pushed into the code block
CodeBlockBytes == {1}
\* the byte sequences written into the code block
WriteArgs == {<<>>, <<1, 1>>}

CodeBlockApply(name, r) ==
    /\ codeBlock' = r.b
    /\ fatal' = r.fatal
    /\ op' = name
    /\ ret' = 0
    /\ UNCHANGED othersOfCodeBlock

CodeBlockResize ==
    /\ Running
    /\ \E n \in ResizeArgs, z \in ZeroSizeResults :
          CodeBlockApply("cloxCodeBlockResize", cloxCodeBlockResize(codeBlock, n, z))

CodeBlockExpand ==
    /\ Running
    /\ \E o \in Offsets, z \in ZeroSizeResults :
          CodeBlockApply("cloxCodeBlockExpand", cloxCodeBlockExpand(codeBlock, o, z))

CodeBlockShrink ==
    /\ Running
    /\ \E o \in Offsets, z \in ZeroSizeResults :
          CodeBlockApply("cloxCodeBlockShrink", cloxCodeBlockShrink(codeBlock, o, z))

CodeBlockPushOf(values) ==
    /\ Running
    /\ \E v \in values, z \in ZeroSizeResults :
          CodeBlockApply("cloxCodeBlockPush", cloxCodeBlockPush(codeBlock, v, z))

CodeBlockPush == CodeBlockPushOf(CodeBlockBytes)

CodeBlockWrite ==
    /\ Running
    /\ \E src \in WriteArgs, z \in ZeroSizeResults, a \in BOOLEAN :
          CodeBlockApply("cloxCodeBlockWrite", cloxCodeBlockWrite(codeBlock, src, z, a))

CodeBlockPop ==
    /\ Running
    /\ IF ULt(0, codeBlock.count)
       THEN IF InArray(codeBlock, codeBlock.count - 1)
            THEN /\ \E v \in ReadCell(codeBlock.mem[codeBlock.count]) : ret' = v
                 /\ codeBlock' = [codeBlock EXCEPT !.count = codeBlock.count - 1]
                 /\ fatal' = ""
            ELSE /\ ret' = 0
                 /\ codeBlock' = [codeBlock EXCEPT !.count = codeBlock.count - 1]
                 /\ fatal' = "memory fault"
       ELSE /\ ret' = 0
            /\ codeBlock' = codeBlock
            /\ fatal' = "buffer underrun"
    /\ op' = "cloxCodeBlockPop"
    /\ UNCHANGED othersOfCodeBlock

InitCodeBlock ==
    /\ \E c \in InitCapacities, z \in ZeroSizeResults :
          LET r == cloxInitCodeBlock(EmptyBlock, c, z)
          IN codeBlock = r.b /\ fatal = r.fatal
    /\ op = "cloxInitCodeBlock"
    /\ ret = 0
    /\ buffer = EmptyBlock
    /\ calls = 0
    /\ readerArray = NoArray
    /\ load = NoLoad
    /\ getChar = NoGetChar
    /\ utf8 = NoUtf8
    /\ bufferReader = NoBufferReader
    /\ frees = 0
    /\ ownerGone = FALSE
    /\ pushed = <<>>
    /\ was = EmptyBlock
    /\ again = 0
    /\ fcloses = 0
    /\ deleted = FALSE
    /\ before = NoCall
    /\ opCode = 0
    /\ opCodeInfo = NoInfo
    /\ reader = NoReader
    /\ got = <<>>
    /\ dpc = "idle"
    /\ out = <<>>
    /\ chunk = EmptyBlock
    /\ chunkReader = NoReader
    /\ cpc = "write"
    /\ given = <<>>
    /\ sourceStream = NoStream
    /\ content = <<>>
    /\ file = NoFile
    /\ reads = <<>>

NextCodeBlock ==
    \/ CodeBlockResize
    \/ CodeBlockExpand
    \/ CodeBlockShrink
    \/ CodeBlockPush
    \/ CodeBlockWrite
    \/ CodeBlockPop

SpecCodeBlock == InitCodeBlock /\ [][NextCodeBlock]_vars

(***************************************************************************)
(* C2: for a code block initialised with any capacity, after any sequence  *)
(* of push, pop, write, resize, expand and shrink, count <= capacity holds *)
(* and every push stores its byte inside the allocated array.              *)
(***************************************************************************)
C2_PushStoresInsideArray ==
    /\ Running => ULe(codeBlock.count, codeBlock.capacity)
    /\ ~(op = "cloxCodeBlockPush" /\ fatal = "memory fault")

(***************************************************************************)
(* Code block reader (lib/vm/code_block.c, include/clox/vm/code_block.h).  *)
(* The reader copies the block's array pointer and count; the scenario     *)
(* creates it after the last push, so its array is the block's memory.     *)
(***************************************************************************)
\* the most bytes the reader scenario pushes
MaxPush == 9

Bool(b) == IF b THEN 1 ELSE 0

cloxInitCodeBlockReader(b) ==
    [array |-> b.array, count |-> b.count, index |-> 0, live |-> TRUE]

\* return codeBlockReader->index < codeBlockReader->count
cloxCodeBlockReaderIsAtEnd(r) == ULt(r.index, r.count)

\* The bytes of the block, in the order they were pushed.
Contents(b) == SubSeq(b.mem, 1, b.count)

ReaderSetupPush ==
    /\ ~reader.live
    /\ ULt(codeBlock.count, MaxPush)
    /\ CodeBlockPushOf(Bytes)

CreateCodeBlockReader ==
    /\ Running
    /\ ~reader.live
    /\ reader' = cloxInitCodeBlockReader(codeBlock)
    /\ got' = <<>>
    /\ op' = "cloxCreateCodeBlockReader"
    /\ ret' = 0
    /\ UNCHANGED <<othersOfReader, fatal>>

CodeBlockReaderGet ==
    /\ Running
    /\ reader.live
    /\ op' = "cloxCodeBlockReaderGet"
    /\ IF ULt(reader.index, reader.count)
       THEN IF InArray(codeBlock, reader.index)
            THEN /\ \E v \in ReadCell(codeBlock.mem[reader.index + 1]) :
                       ret' = v /\ got' = Append(got, v)
                 /\ reader' = [reader EXCEPT !.index = reader.index + 1]
                 /\ fatal' = ""
            ELSE /\ ret' = 0
                 /\ fatal' = "memory fault"
                 /\ UNCHANGED rdVars
       ELSE /\ ret' = 0
            /\ fatal' = "buffer overrun"
            /\ UNCHANGED rdVars
    /\ UNCHANGED othersOfReader

CodeBlockReaderIsAtEnd ==
    /\ Running
    /\ reader.live
    /\ op' = "cloxCodeBlockReaderIsAtEnd"
    /\ ret' = Bool(cloxCodeBlockReaderIsAtEnd(reader))
    /\ UNCHANGED <<othersOfReader, rdVars, fatal>>

NextReader ==
    \/ ReaderSetupPush
    \/ CreateCodeBlockReader
    \/ CodeBlockReaderGet
    \/ CodeBlockReaderIsAtEnd

SpecReader == InitCodeBlock /\ [][NextReader]_vars

(***************************************************************************)
(* C3: after the bytes of S were pushed one by one into a fresh code block *)
(* and a reader was created over it, the n = |S| calls of Get returned the *)
(* bytes of S in order, and the reader then reports that it is at the end. *)
(***************************************************************************)
C3_ReaderReturnsPushedThenAtEnd ==
    (Running /\ reader.live /\ Len(got) = codeBlock.count)
        => /\ got = Contents(codeBlock)
           /\ cloxCodeBlockReaderIsAtEnd(reader)

(***************************************************************************)
(* C9: cloxCodeBlockReaderIsAtEnd returns TRUE exactly when the reader's   *)
(* index is at or past its count.                                          *)
(***************************************************************************)
C9_IsAtEndIffIndexAtCount ==
    (Running /\ op = "cloxCodeBlockReaderIsAtEnd")
        => (ret = 1 <=> ULe(reader.count, reader.index))

(***************************************************************************)
(* Opcode table (lib/vm/opcode.c) and disassembler (lib/vm/debug.c).       *)
(* clox/vm/opcode.inc defines the opcodes other than nop; the two that the *)
(* disassembler's test program uses are modelled: ldb takes one byte, ldl  *)
(* three.  An entry the table does not define is zero-initialised.         *)
(***************************************************************************)
CLOX_OP_CODE_NOP == 0
CLOX_OP_CODE_LDB == 1
CLOX_OP_CODE_LDL == 2

clox_OpCodeInfos(c) ==
    CASE c = CLOX_OP_CODE_NOP -> [name |-> "nop", code |-> CLOX_OP_CODE_NOP, mode |-> "NONE"]
      [] c = CLOX_OP_CODE_LDB -> [name |-> "ldb", code |-> CLOX_OP_CODE_LDB, mode |-> "BYTE"]
      [] c = CLOX_OP_CODE_LDL -> [name |-> "ldl", code |-> CLOX_OP_CODE_LDL, mode |-> "LONG"]
      [] OTHER -> [name |-> NULL, code |-> 0, mode |-> "NONE"]

cloxGetOpCodeInfo(c) ==
    IF c < 0 \/ c >= BYTE_MAX + 1
    THEN [found |-> FALSE, name |-> "uknown", code |-> c, mode |-> "NONE"]
    ELSE [found |-> TRUE, name |-> clox_OpCodeInfos(c).name,
          code |-> clox_OpCodeInfos(c).code, mode |-> clox_OpCodeInfos(c).mode]

(***************************************************************************)
(* The kind-tagged descriptor table of lib/vm/code.c.  Its table defines   *)
(* nop; the entries the x-macro file adds are not part of the sources and  *)
(* none is modelled.  The table has BYTE_MAX + 1 entries, or, in a build   *)
(* with CLOX_OPTIMIZE, as many as its initialisers name; an entry without  *)
(* an initialiser is zero-initialised.                                     *)
(***************************************************************************)
CLOX_OP_KIND_BYTE == 257

\* clox_OpCodeInfos of code.c
code_OpCodeInfos(c) ==
    IF c = CLOX_OP_CODE_NOP
    THEN [name |-> "nop", func |-> NULL, code |-> CLOX_OP_CODE_NOP, kind |-> CLOX_OP_KIND_BYTE]
    ELSE [name |-> NULL, func |-> NULL, code |-> 0, kind |-> 0]

\* countof(clox_OpCodeInfos) of code.c
code_InfosMax(optimize) == IF optimize THEN CLOX_OP_CODE_NOP + 1 ELSE BYTE_MAX + 1

\* cloxGetOpCodeInfo of code.c: the result and *outOpCodeInfo, which was info
\* before the call; the branch of a code inside the table leaves func alone
code_GetOpCodeInfo(c, info, optimize) ==
    IF c < 0 \/ c >= code_InfosMax(optimize)
    THEN [found |-> FALSE,
          info |-> [name |-> "uknown", func |-> NULL, code |-> c, kind |-> CLOX_OP_KIND_BYTE]]
    ELSE [found |-> TRUE,
          info |-> [name |-> code_OpCodeInfos(c).name, func |-> info.func,
                    code |-> code_OpCodeInfos(c).code, kind |-> code_OpCodeInfos(c).kind]]

\* the codes cloxGetOpCodeInfo is called with: every byte, and the values
\* of the enumeration's type next to both ends of the byte range
OpCodeArgs == (0 - 1)..(BYTE_MAX + 1)

\* the caller declares a CloxOpCodeInfo_t and calls cloxGetOpCodeInfo on it
GetOpCodeInfo ==
    /\ Running
    /\ \E c \in OpCodeArgs, optimize \in BOOLEAN, garbage \in {NULL, "garbage"} :
          LET r == code_GetOpCodeInfo(c, [NoInfo EXCEPT !.func = garbage], optimize)
          IN /\ opCode' = c
             /\ opCodeInfo' = r.info
             /\ ret' = Bool(r.found)
    /\ op' = "cloxGetOpCodeInfo"
    /\ UNCHANGED <<bufVars, cbVars, rdVars, dsVars, ckVars, ssVars, hsVars, clVars, lvVars, skVars,
                 brVars, u8Vars, gcVars, ldVars, raVars, fatal>>

NextOpCode == GetOpCodeInfo

SpecOpCode == InitCodeBlock /\ [][NextOpCode]_vars

(***************************************************************************)
(* C12: cloxGetOpCodeInfo(c, out) for a code c that has no defined opcode  *)
(* returns FALSE and fills out with the name "unknown", the byte kind and  *)
(* code = c; the name it returns is null for no c.                         *)
(***************************************************************************)
C12_UndefinedOpCodeIsUnknown ==
    op = "cloxGetOpCodeInfo" =>
        /\ opCodeInfo.name # NULL
        /\ opCode # CLOX_OP_CODE_NOP =>
              /\ ret = 0
              /\ opCodeInfo.name = "unknown"
              /\ opCodeInfo.kind = CLOX_OP_KIND_BYTE
              /\ opCodeInfo.code = opCode

\* C12, the last part alone: the name cloxGetOpCodeInfo returns is never null
C12_NameNeverNull ==
    op = "cloxGetOpCodeInfo" => opCodeInfo.name # NULL

\* What the disassembler writes: the indentation, and the pieces of a line.
Indent == [kind |-> "indent", offset |-> 0, name |-> "", arg |-> 0]
LineHead(offset, name) == [kind |-> "head", offset |-> offset, name |-> name, arg |-> 0]
Unknown(offset, code) == [kind |-> "unknown", offset |-> offset, name |-> "", arg |-> code]
Operand(byte) == [kind |-> "operand", offset |-> 0, name |-> "", arg |-> byte]
Eol == [kind |-> "eol", offset |-> 0, name |-> "", arg |-> 0]

\* (uint32_t)codeBlockReader->index - 1, printed after a byte was read
PrintedOffset(r) == U32(r.index) - 1

\* cloxCodeBlockReaderGet on the reader r over the block b, as a value
ReaderGet(b, r) ==
    IF ULt(r.index, r.count)
    THEN IF InArray(b, r.index) /\ b.mem[r.index + 1] # Junk
         THEN [r |-> [r EXCEPT !.index = r.index + 1], byte |-> b.mem[r.index + 1], fatal |-> ""]
         ELSE [r |-> r, byte |-> 0, fatal |-> "memory fault"]
    ELSE [r |-> r, byte |-> 0, fatal |-> "buffer overrun"]

clox_DisassembleInstruction(b, r) ==
    LET g == ReaderGet(b, r)
        info == cloxGetOpCodeInfo(g.byte)
        head == <<LineHead(PrintedOffset(g.r), info.name)>>
        a == ReaderGet(b, g.r)
    IN IF g.fatal # ""
       THEN [r |-> g.r, out |-> <<>>, fatal |-> g.fatal]
       ELSE IF info.found
            THEN CASE info.mode = "NONE" -> [r |-> g.r, out |-> head \o <<Eol>>, fatal |-> ""]
                   [] info.mode = "BYTE" ->
                        IF a.fatal # ""
                        THEN [r |-> a.r, out |-> head, fatal |-> a.fatal]
                        ELSE [r |-> a.r, out |-> head \o <<Operand(a.byte), Eol>>, fatal |-> ""]
                   [] info.mode = "SCAN" ->
                        [r |-> g.r, out |-> head, fatal |-> "error: not implemented yet"]
                   [] OTHER ->
                        [r |-> g.r, out |-> head,
                         fatal |-> "error: unreachable code has been reached"]
            ELSE [r |-> g.r, out |-> <<Unknown(PrintedOffset(g.r), info.code), Eol>>,
                  fatal |-> ""]

(***************************************************************************)
(* cloxDisassembleCodeBlock, one action per step of its loop.  The block   *)
(* is filled first, by pushes and writes; reader is the function's local   *)
(* codeBlockReader.                                                        *)
(***************************************************************************)
\* the most bytes pushed into a block that is disassembled
MaxProgram == 4
\* a byte that has no defined opcode (0xFE)
UndefinedByte == 254
\* the bytes pushed into a block that is disassembled
ProgramBytes == {CLOX_OP_CODE_NOP, CLOX_OP_CODE_LDB, CLOX_OP_CODE_LDL, UndefinedByte}

DisasmSetupPush ==
    /\ dpc = "idle"
    /\ ULt(codeBlock.count, MaxProgram)
    /\ CodeBlockPushOf(ProgramBytes)

DisasmSetupWrite ==
    /\ dpc = "idle"
    /\ CodeBlockWrite

\* if (cloxInitCodeBlockReader(&codeBlockReader, codeBlock)->array)
DisassembleEnter ==
    /\ Running
    /\ dpc = "idle"
    /\ reader' = cloxInitCodeBlockReader(codeBlock)
    /\ dpc' = IF codeBlock.array # NULL THEN "loop" ELSE "done"
    /\ op' = "cloxDisassembleCodeBlock"
    /\ UNCHANGED <<othersOfDisasm, out, fatal, ret>>

\* while (!cloxCodeBlockReaderIsAtEnd(&codeBlockReader)): one iteration
DisassembleInstruction ==
    /\ Running
    /\ dpc = "loop"
    /\ ~cloxCodeBlockReaderIsAtEnd(reader)
    /\ LET d == clox_DisassembleInstruction(codeBlock, reader)
       IN /\ reader' = d.r
          /\ out' = out \o <<Indent>> \o d.out
          /\ fatal' = d.fatal
    /\ UNCHANGED <<othersOfDisasm, dpc, op, ret>>

\* the loop's condition fails and the function returns
DisassembleReturn ==
    /\ Running
    /\ dpc = "loop"
    /\ cloxCodeBlockReaderIsAtEnd(reader)
    /\ dpc' = "done"
    /\ UNCHANGED <<othersOfDisasm, reader, out, fatal, op, ret>>

NextDisasm ==
    \/ DisasmSetupPush
    \/ DisasmSetupWrite
    \/ DisassembleEnter
    \/ DisassembleInstruction
    \/ DisassembleReturn

SpecDisasm == InitCodeBlock /\ [][NextDisasm]_vars

\* The lines a complete disassembly of the bytes of code from index i on has.
RECURSIVE Instructions(_, _)
Instructions(code, i) ==
    IF i > Len(code)
    THEN 0
    ELSE LET mode == clox_OpCodeInfos(code[i]).mode
             width == CASE mode = "NONE" -> 1 [] mode = "BYTE" -> 2 [] OTHER -> 4
         IN 1 + Instructions(code, i + width)

Lines(o) == Cardinality({i \in 1..Len(o) : o[i].kind = "eol"})

(***************************************************************************)
(* C7: cloxDisassembleCodeBlock terminates, and when it returns normally   *)
(* it has consumed every byte of the block exactly once and has emitted    *)
(* one line per instruction.                                               *)
(***************************************************************************)
C7_DisassemblyConsumesEveryByte ==
    (Running /\ dpc = "done")
        => /\ reader.index = codeBlock.count
           /\ Lines(out) = Instructions(Contents(codeBlock), 1)

(***************************************************************************)
(* C8: disassembling a code block whose count is 0 emits no output and     *)
(* raises no fatal error.                                                  *)
(***************************************************************************)
C8_EmptyBlockNoOutputNoError ==
    (dpc # "idle" /\ codeBlock.count = 0) => (out = <<>> /\ Running)

\* the items of the output o that are lines of an unknown opcode
UnknownLines(o) == {i \in 1..Len(o) : o[i].kind = "unknown"}

(***************************************************************************)
(* C13: when cloxDisassembleCodeBlock meets a byte that has no defined     *)
(* opcode it emits exactly one line for it, with the byte's offset, the    *)
(* word unknown and the byte, consumes no operand byte for it and goes on  *)
(* with the next byte.  Stated for the blocks whose bytes are nop and the  *)
(* undefined byte, where every byte is an instruction of its own.          *)
(***************************************************************************)
C13_UnknownByteGetsOneLine ==
    (/\ Running
     /\ dpc = "done"
     /\ \A i \in 1..codeBlock.count :
           codeBlock.mem[i] \in {CLOX_OP_CODE_NOP, UndefinedByte}
     /\ \E i \in 1..codeBlock.count : codeBlock.mem[i] = UndefinedByte)
        => /\ reader.index = codeBlock.count
           /\ Lines(out) = codeBlock.count
           /\ \A i \in 1..codeBlock.count :
                 codeBlock.mem[i] = UndefinedByte
                    => Cardinality({k \in UnknownLines(out) :
                                      out[k] = Unknown(i - 1, UndefinedByte)}) = 1
           /\ Cardinality(UnknownLines(out))
                 = Cardinality({i \in 1..codeBlock.count : codeBlock.mem[i] = UndefinedByte})

\* C13, the lookup alone: the descriptor of the undefined byte is not found
C13_UndefinedByteIsNotFound ==
    (op = "cloxCodeBlockPush" /\ Running /\ codeBlock.count > 0)
        => ~cloxGetOpCodeInfo(UndefinedByte).found

(***************************************************************************)
(* Chunk and chunk reader (lib/vm/chunk.c, include/clox/vm/chunk.h).       *)
(***************************************************************************)
CLOX_CHUNK_GROWING_FACTOR == 2

clox_AdjustChunkCapacity(capacity) == alignto(capacity, CLOX_SIZEOF_WORD_PTR)


cloxInitChunk(c, capacity, zeroSize) ==
    IF capacity = 0
    THEN Ok(EmptyBlock)
    ELSE LET cap == clox_AdjustChunkCapacity(capacity) IN
         IF cap = 0
         THEN IF zeroSize = NULL
              THEN Fail(c, "cannot allocate memory")
              ELSE Ok([array |-> BLOCK, count |-> 0, capacity |-> 0, mem |-> <<>>])
         ELSE IF CanAlloc(cap)
              THEN Ok([array |-> BLOCK, count |-> 0, capacity |-> cap, mem |-> Zeros(cap)])
              ELSE Fail(c, "cannot allocate memory")

cloxChunkResize(c, newCapacity, zeroSize) ==
    IF newCapacity = 0
    THEN Ok(EmptyBlock)
    ELSE LET cap == clox_AdjustChunkCapacity(newCapacity)
             cnt == IF ULt(cap, c.count) THEN cap - 1 ELSE c.count
         IN IF cap # c.capacity
            THEN IF c.array # NULL
                 THEN IF cap = 0
                      THEN IF zeroSize = NULL
                           THEN Fail([c EXCEPT !.mem = <<>>], "cannot reallocate memory")
                           ELSE Ok([c EXCEPT !.mem = <<>>, !.count = cnt, !.capacity = cap])
                      ELSE IF CanAlloc(cap)
                           THEN Ok([c EXCEPT !.mem = Realloced(c.mem, cap), !.count = cnt,
                                             !.capacity = cap])
                           ELSE Fail(c, "cannot reallocate memory")
                 ELSE cloxInitChunk(c, cap, zeroSize)
            ELSE Ok(c)

cloxChunkExpand(c, offset, zeroSize) ==
    cloxChunkResize(c, c.capacity + U32(offset), zeroSize)

cloxChunkShrink(c, offset, zeroSize) ==
    cloxChunkResize(c, c.capacity - U32(offset), zeroSize)

clox_ChunkGrow(c, zeroSize) ==
    LET newCapacity == IF U32(c.capacity) # 0
                       THEN U32(U32(c.capacity) * CLOX_CHUNK_GROWING_FACTOR)
                       ELSE CLOX_SIZEOF_WORD_PTR
    IN cloxChunkResize(c, newCapacity, zeroSize)

cloxChunkPush(c, value, zeroSize) ==
    LET g == IF ULe(c.capacity, c.count) THEN clox_ChunkGrow(c, zeroSize) ELSE Ok(c) IN
    IF g.fatal # ""
    THEN g
    ELSE IF InArray(g.b, g.b.count)
         THEN Ok([g.b EXCEPT !.mem[g.b.count + 1] = value, !.count = g.b.count + 1])
         ELSE Fail(g.b, "memory fault")

\* bufcpy(chunk->array, buffer, count), then chunk->count += count
cloxChunkWrite(c, src, zeroSize, assertions) ==
    LET n == Len(src)
        g == IF ULe(c.capacity, c.count + n)
             THEN cloxChunkExpand(c, (c.count + n) - c.capacity, zeroSize)
             ELSE Ok(c)
    IN IF g.fatal # ""
       THEN g
       ELSE IF g.b.array = NULL
            THEN IF assertions
                 THEN Fail(g.b, "assertion failed")
                 ELSE IF n = 0 THEN g ELSE Fail(g.b, "memory fault")
            ELSE IF n <= Len(g.b.mem)
                 THEN Ok([g.b EXCEPT !.mem = bufcpy(g.b.mem, src), !.count = g.b.count + n])
                 ELSE Fail(g.b, "memory fault")

cloxInitChunkReader(c) ==
    [array |-> c.array, count |-> c.count, index |-> 0, live |-> TRUE]

\* return chunkReader->array && (chunkReader->index < chunkReader->count)
cloxChunkReaderIsAtEnd(r) == r.array # NULL /\ ULt(r.index, r.count)

(***************************************************************************)
(* The chunk's test program (units/vm/test_chunk.c): create a chunk, write *)
(* a byte sequence, push bytes one by one, create a reader and run         *)
(*     while (!cloxChunkReaderIsAtEnd(r)) cloxChunkReaderGet(r);           *)
(***************************************************************************)
\* the most bytes handed to the chunk
MaxGiven == 6
\* the capacities the chunk is created with
ChunkCapacities == {0, CLOX_SIZEOF_WORD_PTR}
\* the byte sequences handed to cloxChunkWrite
ChunkWriteArgs == {<<>>, <<1>>, <<2>>, <<1, 2>>, <<2, 1>>, <<2, 1, 1>>}

ChunkApply(name, r) ==
    /\ chunk' = r.b
    /\ fatal' = r.fatal
    /\ op' = name
    /\ ret' = 0
    /\ UNCHANGED <<othersOfChunk, chunkReader, got>>

ChunkWrite ==
    /\ Running
    /\ cpc = "write"
    /\ \E src \in ChunkWriteArgs, z \in ZeroSizeResults, a \in BOOLEAN :
          /\ ChunkApply("cloxChunkWrite", cloxChunkWrite(chunk, src, z, a))
          /\ given' = src
    /\ cpc' = "push"

ChunkPush ==
    /\ Running
    /\ cpc = "push"
    /\ Len(given) < MaxGiven
    /\ \E v \in Bytes, z \in ZeroSizeResults :
          /\ ChunkApply("cloxChunkPush", cloxChunkPush(chunk, v, z))
          /\ given' = Append(given, v)
    /\ cpc' = "push"

CreateChunkReader ==
    /\ Running
    /\ cpc = "push"
    /\ chunkReader' = cloxInitChunkReader(chunk)
    /\ got' = <<>>
    /\ cpc' = "loop"
    /\ op' = "cloxCreateChunkReader"
    /\ ret' = 0
    /\ UNCHANGED <<othersOfChunk, chunk, given, fatal>>

\* one iteration of the loop: cloxChunkReaderGet
ChunkLoopGet ==
    /\ Running
    /\ cpc = "loop"
    /\ ~cloxChunkReaderIsAtEnd(chunkReader)
    /\ op' = "cloxChunkReaderGet"
    /\ IF ULt(chunkReader.index, chunkReader.count)
       THEN IF InArray(chunk, chunkReader.index)
            THEN /\ \E v \in ReadCell(chunk.mem[chunkReader.index + 1]) :
                       ret' = v /\ got' = Append(got, v)
                 /\ chunkReader' = [chunkReader EXCEPT !.index = chunkReader.index + 1]
                 /\ fatal' = ""
            ELSE /\ ret' = 0
                 /\ fatal' = "memory fault"
                 /\ UNCHANGED <<chunkReader, got>>
       ELSE /\ ret' = 0
            /\ fatal' = "buffer overrun"
            /\ UNCHANGED <<chunkReader, got>>
    /\ UNCHANGED <<othersOfChunk, chunk, cpc, given>>

\* the loop's condition fails
ChunkLoopExit ==
    /\ Running
    /\ cpc = "loop"
    /\ cloxChunkReaderIsAtEnd(chunkReader)
    /\ cpc' = "done"
    /\ op' = "cloxChunkReaderIsAtEnd"
    /\ ret' = 1
    /\ UNCHANGED <<othersOfChunk, chunk, chunkReader, got, given, fatal>>

InitChunk ==
    /\ \E c \in ChunkCapacities, z \in ZeroSizeResults :
          LET r == cloxInitChunk(EmptyBlock, c, z)
          IN chunk = r.b /\ fatal = r.fatal
    /\ chunkReader = NoReader
    /\ cpc = "write"
    /\ given = <<>>
    /\ sourceStream = NoStream
    /\ content = <<>>
    /\ file = NoFile
    /\ reads = <<>>
    /\ got = <<>>
    /\ op = "cloxCreateChunk"
    /\ ret = 0
    /\ buffer = EmptyBlock
    /\ calls = 0
    /\ readerArray = NoArray
    /\ load = NoLoad
    /\ getChar = NoGetChar
    /\ utf8 = NoUtf8
    /\ bufferReader = NoBufferReader
    /\ frees = 0
    /\ ownerGone = FALSE
    /\ pushed = <<>>
    /\ was = EmptyBlock
    /\ again = 0
    /\ fcloses = 0
    /\ deleted = FALSE
    /\ before = NoCall
    /\ opCode = 0
    /\ opCodeInfo = NoInfo
    /\ codeBlock = EmptyBlock
    /\ reader = NoReader
    /\ dpc = "idle"
    /\ out = <<>>

NextChunk ==
    \/ ChunkWrite
    \/ ChunkPush
    \/ CreateChunkReader
    \/ ChunkLoopGet
    \/ ChunkLoopExit

SpecChunk == InitChunk /\ [][NextChunk]_vars

(***************************************************************************)
(* C10: for a chunk created with capacity 0, after cloxChunkWrite of A and *)
(* cloxChunkPush of each byte of B, the loop over a reader created         *)
(* afterwards returns the bytes of A followed by those of B, each once,    *)
(* and ends without a fatal error.                                         *)
(***************************************************************************)
C10_ChunkLoopReturnsWrittenThenPushed ==
    /\ cpc = "done" => got = given
    /\ cpc = "loop" => Running

(***************************************************************************)
(* Bulk writes into containers that already hold bytes: a code block and a *)
(* chunk are constructed, bytes are pushed into each and cloxCodeBlockWrite *)
(* and cloxChunkWrite are called on them.                                  *)
(***************************************************************************)
\* the most bytes a container holds when a push or a bulk write is called
MaxHeld == 3

BulkCodeBlockPush ==
    /\ ULt(codeBlock.count, MaxHeld)
    /\ CodeBlockPushOf(Bytes)

BulkChunkPush ==
    /\ Running
    /\ ULt(chunk.count, MaxHeld)
    /\ \E v \in Bytes, z \in ZeroSizeResults :
          ChunkApply("cloxChunkPush", cloxChunkPush(chunk, v, z))
    /\ UNCHANGED <<cpc, given>>

BulkChunkWrite ==
    /\ Running
    /\ ULt(chunk.count, MaxHeld)
    /\ \E src \in ChunkWriteArgs, z \in ZeroSizeResults, a \in BOOLEAN :
          ChunkApply("cloxChunkWrite", cloxChunkWrite(chunk, src, z, a))
    /\ UNCHANGED <<cpc, given>>

InitBulk ==
    /\ \E c \in InitCapacities, k \in ChunkCapacities, z \in ZeroSizeResults :
          LET r == cloxInitCodeBlock(EmptyBlock, c, z)
              q == cloxInitChunk(EmptyBlock, k, z)
          IN /\ codeBlock = r.b
             /\ chunk = q.b
             /\ fatal = IF r.fatal # "" THEN r.fatal ELSE q.fatal
    /\ op = "cloxCreateChunk"
    /\ ret = 0
    /\ buffer = EmptyBlock
    /\ calls = 0
    /\ readerArray = NoArray
    /\ load = NoLoad
    /\ getChar = NoGetChar
    /\ utf8 = NoUtf8
    /\ bufferReader = NoBufferReader
    /\ frees = 0
    /\ ownerGone = FALSE
    /\ pushed = <<>>
    /\ was = EmptyBlock
    /\ again = 0
    /\ fcloses = 0
    /\ deleted = FALSE
    /\ before = NoCall
    /\ opCode = 0
    /\ opCodeInfo = NoInfo
    /\ reader = NoReader
    /\ got = <<>>
    /\ dpc = "idle"
    /\ out = <<>>
    /\ chunkReader = NoReader
    /\ cpc = "write"
    /\ given = <<>>
    /\ sourceStream = NoStream
    /\ content = <<>>
    /\ file = NoFile
    /\ reads = <<>>

NextBulk ==
    \/ BulkCodeBlockPush
    \/ CodeBlockWrite
    \/ BulkChunkPush
    \/ BulkChunkWrite

SpecBulk == InitBulk /\ [][NextBulk]_vars

\* container b2 is container b with the bytes src appended
Appended(b, src, b2) ==
    /\ b2.count = b.count + Len(src)
    /\ ULe(b2.count, b2.capacity)
    /\ b2.array # NULL => Contents(b2) = Contents(b) \o src

(***************************************************************************)
(* C11: a bulk write appends.  Every step that is a cloxCodeBlockWrite or  *)
(* a cloxChunkWrite of n bytes to a container holding c bytes, and that    *)
(* does not abort, leaves the bytes at 0..c-1 unchanged, places the n      *)
(* bytes at c..c+n-1 in order and sets count to c+n, within the capacity.  *)
(***************************************************************************)
C11_BulkWriteAppends ==
    [][/\ \A src \in WriteArgs, z \in ZeroSizeResults, a \in BOOLEAN :
             LET r == cloxCodeBlockWrite(codeBlock, src, z, a) IN
             (Running /\ op' = "cloxCodeBlockWrite" /\ fatal' = ""
                 /\ r.fatal = "" /\ codeBlock' = r.b /\ chunk' = chunk)
                 => Appended(codeBlock, src, codeBlock')
       /\ \A src \in ChunkWriteArgs, z \in ZeroSizeResults, a \in BOOLEAN :
             LET r == cloxChunkWrite(chunk, src, z, a) IN
             (Running /\ op' = "cloxChunkWrite" /\ fatal' = ""
                 /\ r.fatal = "" /\ chunk' = r.b /\ codeBlock' = codeBlock)
                 => Appended(chunk, src, chunk')]_vars

\* C11, the chunk alone (its write does advance count): a cloxChunkWrite appends
C11_ChunkWriteAppends ==
    [][\A src \in ChunkWriteArgs, z \in ZeroSizeResults, a \in BOOLEAN :
             LET r == cloxChunkWrite(chunk, src, z, a) IN
             (Running /\ op' = "cloxChunkWrite" /\ fatal' = ""
                 /\ r.fatal = "" /\ chunk' = r.b /\ codeBlock' = codeBlock)
                 => Appended(chunk, src, chunk')]_vars

(***************************************************************************)
(* UTF-8 decoding (lib/base/utf8.c) and the source buffer                  *)
(* (lib/source/source_buffer.c).                                           *)
(***************************************************************************)
EOF == -1
EOL == 10
NUL == 0
UTF8_ERROR_INVALIDUTF8 == -3

\* any byte with the top bit set, a lead byte as well as a continuation
NotAscii(ch) == ch >= 128

\* ((ch) & 0xc0) == 0x80
utf_cont(ch) == ch \div 64 = 2

\* utf8_iterate over the bytes str with the length strlen: the number of bytes
\* of the codepoint, or an error code, and *dst.  end is str + strlen, or
\* str + 4 for a negative strlen
utf8_iterate(str, strlen) ==
    IF strlen = 0
    THEN [n |-> 0, dst |-> -1]
    ELSE LET uc == str[1]
             end == IF strlen < 0 THEN 4 ELSE strlen IN
         IF uc < 128
         THEN [n |-> 1, dst |-> uc]
         ELSE IF uc < 194 \/ uc > 244
         THEN [n |-> UTF8_ERROR_INVALIDUTF8, dst |-> -1]
         ELSE IF uc < 224
         THEN IF end < 2 \/ ~utf_cont(str[2])
              THEN [n |-> UTF8_ERROR_INVALIDUTF8, dst |-> -1]
              ELSE [n |-> 2, dst |-> (uc % 32) * 64 + (str[2] % 64)]
         ELSE IF uc < 240
         THEN IF end < 3 \/ ~utf_cont(str[2]) \/ ~utf_cont(str[3])
              THEN [n |-> UTF8_ERROR_INVALIDUTF8, dst |-> -1]
              ELSE IF uc = 237 /\ str[2] > 159
              THEN [n |-> UTF8_ERROR_INVALIDUTF8, dst |-> -1]
              ELSE LET c == (uc % 16) * 4096 + (str[2] % 64) * 64 + (str[3] % 64) IN
                   IF c < 2048
                   THEN [n |-> UTF8_ERROR_INVALIDUTF8, dst |-> -1]
                   ELSE [n |-> 3, dst |-> c]
         ELSE IF end < 4 \/ ~utf_cont(str[2]) \/ ~utf_cont(str[3]) \/ ~utf_cont(str[4])
         THEN [n |-> UTF8_ERROR_INVALIDUTF8, dst |-> -1]
         ELSE IF (uc = 240 /\ str[2] < 144) \/ (uc = 244 /\ str[2] > 143)
         THEN [n |-> UTF8_ERROR_INVALIDUTF8, dst |-> -1]
         ELSE [n |-> 4, dst |-> (uc % 8) * 262144 + (str[2] % 64) * 4096
                                 + (str[3] % 64) * 64 + (str[4] % 64)]

\* cloxCreateSourceBuffer(size, content, count): zeroed, then the content
cloxCreateSourceBuffer(size, bytes) ==
    [i \in 1..size |-> IF i <= Len(bytes) THEN bytes[i] ELSE 0]

\* cloxSourceBufferGetChar: the result and the width it computed; the
\* width is not assigned when the position is outside the buffer
cloxSourceBufferGetChar(st, position) ==
    IF ULt(position, st.size)
    THEN IF st.encoding = "ASCII"
         THEN [result |-> st.data[position + 1], offset |-> 1, assigned |-> TRUE]
         ELSE LET it == utf8_iterate(SubSeq(st.data, position + 1, st.size),
                                     st.size - position)
              IN [result |-> it.dst, offset |-> it.n, assigned |-> TRUE]
    ELSE [result |-> EOF, offset |-> 0, assigned |-> FALSE]

(***************************************************************************)
(* Source stream (lib/source/source_stream.c).                             *)
(***************************************************************************)
\* the size of the page an opened stream buffers, scaled down from 4096
CLOX_PAGESIZ == 4

cloxCreateSourceStreamFromText(text, encoding) ==
    [isInitialized |-> FALSE, isOpen |-> FALSE, stream |-> NULL, encoding |-> encoding,
     data |-> cloxCreateSourceBuffer(Len(text) + 1, text), size |-> Len(text) + 1,
     streamLocation |-> ZeroLocation, beginLocation |-> ZeroLocation,
     forwardLocation |-> ZeroLocation]

cloxOpenSourceStream(encoding) ==
    [isInitialized |-> FALSE, isOpen |-> TRUE, stream |-> BLOCK, encoding |-> encoding,
     data |-> cloxCreateSourceBuffer(CLOX_PAGESIZ, <<>>), size |-> CLOX_PAGESIZ,
     streamLocation |-> ZeroLocation, beginLocation |-> ZeroLocation,
     forwardLocation |-> ZeroLocation]

clox_SourceStreamNeedsARefill(st, offset) ==
    ~st.isInitialized \/ ULe(st.size, st.forwardLocation.ch + offset)

\* bufmov(data, data + begin, count): each byte moved leaves a zero behind
bufmov(data, begin, count) ==
    LET moved == [i \in 1..Len(data) |->
                     IF i > begin /\ i <= begin + count THEN 0 ELSE data[i]]
    IN [i \in 1..Len(data) |-> IF i <= count THEN data[begin + i] ELSE moved[i]]

\* fread(data + begin, 1, count, stream) on the file f with the bytes all
fread(data, begin, count, all, f) ==
    LET k == IF Len(all) - f.pos < count THEN Len(all) - f.pos ELSE count
    IN [data |-> [i \in 1..Len(data) |->
                     IF i > begin /\ i <= begin + k THEN all[f.pos + (i - begin)] ELSE data[i]],
        f |-> [pos |-> f.pos + k, eof |-> f.eof \/ k < count]]

\* clox_SourceStreamRefill: whether it refilled, the stream and the file after
clox_SourceStreamRefill(st, all, f) ==
    IF ~st.isOpen \/ st.stream = NULL
    THEN [ok |-> FALSE, st |-> st, f |-> f]
    ELSE LET begin == st.beginLocation.ch
             count == st.size - begin
             moved == IF begin # 0 THEN bufmov(st.data, begin, count) ELSE st.data
             rd == fread(moved, begin, count, all, f)
             fwd == st.forwardLocation
             bgn == st.beginLocation
         IN IF f.eof
            THEN [ok |-> FALSE, st |-> st, f |-> f]
            ELSE IF ~st.isInitialized
                 THEN [ok |-> TRUE, f |-> rd.f,
                       st |-> [st EXCEPT !.data = rd.data, !.isInitialized = TRUE]]
                 ELSE [ok |-> TRUE, f |-> rd.f,
                       st |-> [st EXCEPT !.data = rd.data,
                                         !.forwardLocation =
                                             IF begin # 0
                                             THEN [ch |-> fwd.ch - bgn.ch, co |-> fwd.co - bgn.co,
                                                   ln |-> fwd.ln - bgn.ln]
                                             ELSE ZeroLocation,
                                         !.beginLocation = ZeroLocation]]

\* what the local variable offset of clox_SourceStreamRead can hold before
\* cloxSourceBufferGetChar is called: it is not initialised
Garbage == {0, 1}

\* clox_SourceStreamRead, with the value garbage in its local offset
clox_SourceStreamRead(st, all, f, garbage) ==
    LET need == clox_SourceStreamNeedsARefill(st, 0)
        rf == IF need THEN clox_SourceStreamRefill(st, all, f)
                      ELSE [ok |-> TRUE, st |-> st, f |-> f]
        s1 == rf.st
        g == cloxSourceBufferGetChar(s1, s1.forwardLocation.ch)
        \* if (outOffset && *outOffset) *outOffset = offset
        offset == IF garbage # 0 /\ g.assigned THEN g.offset ELSE garbage
        sl == s1.streamLocation
        fl == s1.forwardLocation
        sl2 == CASE g.result = EOF \/ g.result = NUL -> sl
                 [] g.result = EOL -> [sl EXCEPT !.co = 0, !.ln = sl.ln + 1]
                 [] OTHER -> [sl EXCEPT !.co = sl.co + offset]
        fl2 == CASE g.result = EOF \/ g.result = NUL -> fl
                 [] g.result = EOL -> [fl EXCEPT !.co = 0, !.ln = fl.ln + 1]
                 [] OTHER -> [fl EXCEPT !.co = fl.co + offset]
    IN IF need /\ ~rf.ok
       THEN [result |-> EOF, st |-> st, f |-> f]
       ELSE [result |-> g.result, f |-> rf.f,
             st |-> [s1 EXCEPT !.streamLocation = [sl2 EXCEPT !.ch = sl.ch + offset],
                               !.forwardLocation = [fl2 EXCEPT !.ch = fl.ch + offset]]]

\* cloxSourceStreamPeekOffset with offset 0: a peek that does not refill
PeekWithoutRefill(st, all, f) ==
    [result |-> cloxSourceBufferGetChar(st, st.forwardLocation.ch).result, st |-> st, f |-> f]

cloxSourceStreamPeek(st, all, f) ==
    LET need == clox_SourceStreamNeedsARefill(st, 0)
        rf == IF need THEN clox_SourceStreamRefill(st, all, f)
                      ELSE [ok |-> TRUE, st |-> st, f |-> f]
    IN IF need /\ ~rf.ok
       THEN [result |-> EOF, st |-> st, f |-> f]
       ELSE [result |-> cloxSourceBufferGetChar(rf.st, rf.st.forwardLocation.ch).result,
             st |-> rf.st, f |-> rf.f]

\* The loop of cloxSourceStreamReadOffset: one call of cloxSourceStreamRead
\* for each of garbages, the value its local offset holds at that call.  Each
\* call's outcome is bound as a value before the next call uses it.
RECURSIVE ReadTimes(_, _, _, _, _)
ReadTimes(st, all, f, garbages, results) ==
    IF Len(results) = Len(garbages)
    THEN [results |-> results, st |-> st, f |-> f]
    ELSE CHOOSE after \in
             {ReadTimes(r.st, all, r.f, garbages, Append(results, r.result)) :
                 r \in {clox_SourceStreamRead(st, all, f, garbages[Len(results) + 1])}} :
             TRUE

\* cloxSourceStreamReadOffset with offset = Len(garbages)
cloxSourceStreamReadOffset(st, all, f, garbages) ==
    LET offset == Len(garbages)
        need == clox_SourceStreamNeedsARefill(st, offset)
    IN CHOOSE after \in
           {IF need /\ ~rf.ok
            THEN [result |-> EOF, results |-> <<>>, st |-> st, f |-> f]
            ELSE LET rt == ReadTimes(rf.st, all, rf.f, garbages, <<>>)
                 IN [result |-> IF offset = 0 THEN EOF ELSE rt.results[offset],
                     results |-> rt.results, st |-> rt.st, f |-> rt.f] :
               rf \in {IF need THEN clox_SourceStreamRefill(st, all, f)
                               ELSE [ok |-> TRUE, st |-> st, f |-> f]}} :
           TRUE

(***************************************************************************)
(* The stream's operations as actions, over a text or over an opened file. *)
(***************************************************************************)
\* the most results of cloxSourceStreamRead that are recorded
MaxReads == 10
\* the largest offset handed to cloxSourceStreamReadOffset
MaxOffset == 2

Encodings == {"ASCII", "UTF_8"}
Page(b) == [i \in 1..CLOX_PAGESIZ |-> b]
\* the texts and the files' contents: short ones, UTF-8 sequences, one not
\* valid UTF-8, exactly one page, and more than a page
StreamContents ==
    UNION {[1..n -> {97, EOL}] : n \in 0..2}
        \cup {<<228, 184, 173>>, <<97, 97, 228, 184, 173>>, <<128>>,
              Page(97), Page(97) \o <<98>>, Page(97) \o <<128>>,
              <<228, 184, 173>> \o [i \in 1..(CLOX_PAGESIZ - 2) |-> 97]}

StreamApply(name, r, results) ==
    /\ sourceStream' = r.st
    /\ file' = r.f
    /\ reads' = reads \o results
    /\ ret' = r.result
    /\ op' = name
    /\ before' = [op |-> op, ret |-> ret]
    /\ UNCHANGED <<othersOfStream, content, fatal>>

SourceStreamRead ==
    /\ Running
    /\ Len(reads) < MaxReads
    /\ \E g \in Garbage :
          LET r == clox_SourceStreamRead(sourceStream, content, file, g)
          IN StreamApply("cloxSourceStreamRead", r, <<r.result>>)

SourceStreamPeek ==
    /\ Running
    /\ StreamApply("cloxSourceStreamPeek", cloxSourceStreamPeek(sourceStream, content, file),
                   <<>>)

SourceStreamReadOffset ==
    /\ Running
    /\ \E n \in 0..MaxOffset :
          /\ Len(reads) + n <= MaxReads
          /\ \E gs \in [1..n -> Garbage] :
                LET r == cloxSourceStreamReadOffset(sourceStream, content, file, gs)
                IN StreamApply("cloxSourceStreamReadOffset", r, r.results)

\* a stream over one of contents, created from the text or opened on the file
InitStreamOf(contents) ==
    /\ content \in contents
    /\ \E e \in Encodings :
          \/ /\ NUL \notin {content[i] : i \in 1..Len(content)}
             /\ sourceStream = cloxCreateSourceStreamFromText(content, e)
             /\ op = "cloxCreateSourceStreamFromText"
          \/ /\ sourceStream = cloxOpenSourceStream(e)
             /\ op = "cloxOpenSourceStream"
    /\ file = NoFile
    /\ reads = <<>>
    /\ ret = 0
    /\ fatal = ""
    /\ buffer = EmptyBlock
    /\ calls = 0
    /\ readerArray = NoArray
    /\ load = NoLoad
    /\ getChar = NoGetChar
    /\ utf8 = NoUtf8
    /\ bufferReader = NoBufferReader
    /\ frees = 0
    /\ ownerGone = FALSE
    /\ pushed = <<>>
    /\ was = EmptyBlock
    /\ again = 0
    /\ fcloses = 0
    /\ deleted = FALSE
    /\ before = NoCall
    /\ opCode = 0
    /\ opCodeInfo = NoInfo
    /\ codeBlock = EmptyBlock
    /\ reader = NoReader
    /\ got = <<>>
    /\ dpc = "idle"
    /\ out = <<>>
    /\ chunk = EmptyBlock
    /\ chunkReader = NoReader
    /\ cpc = "write"
    /\ given = <<>>

InitStream == InitStreamOf(StreamContents)

NextStream ==
    \/ SourceStreamRead
    \/ SourceStreamPeek
    \/ SourceStreamReadOffset

SpecStream == InitStream /\ [][NextStream]_vars

\* The codepoints of bytes in the encoding, up to the first byte that does
\* not start one.
RECURSIVE Codepoints(_, _, _)
Codepoints(bytes, encoding, i) ==
    IF i > Len(bytes)
    THEN <<>>
    ELSE IF encoding = "ASCII"
         THEN <<bytes[i]>> \o Codepoints(bytes, encoding, i + 1)
         ELSE LET it == utf8_iterate(SubSeq(bytes, i, Len(bytes)), Len(bytes) - i + 1)
              IN IF it.n <= 0
                 THEN <<>>
                 ELSE <<it.dst>> \o Codepoints(bytes, encoding, i + it.n)

RECURSIVE Widths(_, _)
Widths(bytes, i) ==
    IF i > Len(bytes)
    THEN 0
    ELSE LET it == utf8_iterate(SubSeq(bytes, i, Len(bytes)), Len(bytes) - i + 1)
         IN IF it.n <= 0 THEN 0 ELSE it.n + Widths(bytes, i + it.n)

WellFormed(bytes, encoding) ==
    IF encoding = "ASCII"
    THEN \A i \in 1..Len(bytes) : bytes[i] < 128
    ELSE Widths(bytes, 1) = Len(bytes)

Expected == Codepoints(content, sourceStream.encoding, 1)
IsText == sourceStream.size > 0 /\ sourceStream.stream = NULL
IsFile == sourceStream.stream # NULL

\* The results read before the first EOF.
BeforeEOF(rs) ==
    LET firstEOF == {i \in 1..Len(rs) : rs[i] = EOF /\ \A j \in 1..(i - 1) : rs[j] # EOF}
    IN IF firstEOF = {} THEN rs ELSE SubSeq(rs, 1, (CHOOSE i \in firstEOF : TRUE) - 1)

IsPrefix(a, b) == Len(a) <= Len(b) /\ a = SubSeq(b, 1, Len(a))

(***************************************************************************)
(* C4: for a stream created from a text, the successive reads return the   *)
(* codepoints of the text in order and the read after the last codepoint   *)
(* returns EOF; the bytes E4 B8 AD read as 0x4E2D, then EOF.               *)
(***************************************************************************)
C4_TextStreamReadsCodepoints ==
    (IsText /\ WellFormed(content, sourceStream.encoding))
        => \A i \in 1..Len(reads) :
              reads[i] = IF i <= Len(Expected) THEN Expected[i] ELSE EOF

(***************************************************************************)
(* C5: for a stream opened over a file of any length, the reads before the *)
(* first EOF return exactly the decoding of the file's bytes in order.     *)
(***************************************************************************)
C5_FileStreamReadsFileOnce ==
    (IsFile /\ WellFormed(content, sourceStream.encoding))
        => /\ IsPrefix(BeforeEOF(reads), Expected)
           /\ (\E i \in 1..Len(reads) : reads[i] = EOF) => BeforeEOF(reads) = Expected

(***************************************************************************)
(* C6: in every state reachable by reads, peeks and offset reads and the   *)
(* refills they trigger, begin.ch <= forward.ch <= stream.ch.  The formula *)
(* asks it of the streams over well-formed contents only.                  *)
(***************************************************************************)
C6_LocationsOrdered ==
    WellFormed(content, sourceStream.encoding) =>
    /\ ULe(sourceStream.beginLocation.ch, sourceStream.forwardLocation.ch)
    /\ ULe(sourceStream.forwardLocation.ch, sourceStream.streamLocation.ch)
\* The stream a read or a peek decodes from: the stream after the refill,
\* where one is needed and succeeds.
Refilled(st, all, f) ==
    IF clox_SourceStreamNeedsARefill(st, 0)
    THEN clox_SourceStreamRefill(st, all, f)
    ELSE [ok |-> TRUE, st |-> st, f |-> f]

\* the bytes at the forward position of the UTF-8 stream st do not start a
\* well-formed sequence
MalformedAtForward(st) ==
    /\ st.encoding = "UTF_8"
    /\ ULt(st.forwardLocation.ch, st.size)
    /\ utf8_iterate(SubSeq(st.data, st.forwardLocation.ch + 1, st.size),
                    st.size - st.forwardLocation.ch).n = UTF8_ERROR_INVALIDUTF8

\* the step is a call of cloxSourceStreamRead
IsRead == op' = "cloxSourceStreamRead" /\ Len(reads') = Len(reads) + 1

(***************************************************************************)
(* C14: when the bytes at the forward position of a UTF-8 stream are not a *)
(* well-formed sequence, cloxSourceStreamRead returns an error codepoint   *)
(* and advances stream.ch and forward.ch by exactly 1; and every read that *)
(* does not return end-of-input increases stream.ch by at least 1.         *)
(***************************************************************************)
C14_ReadAlwaysAdvances ==
    [][IsRead =>
          LET rf == Refilled(sourceStream, content, file) IN
          /\ (rf.ok /\ MalformedAtForward(rf.st))
                => /\ ret' < 0
                   /\ sourceStream'.streamLocation.ch = sourceStream.streamLocation.ch + 1
                   /\ sourceStream'.forwardLocation.ch = rf.st.forwardLocation.ch + 1
          /\ ret' # EOF
                => ULt(sourceStream.streamLocation.ch, sourceStream'.streamLocation.ch)]_vars

\* C14, the malformed sequence alone, with the width stored: the read of a
\* malformed sequence whose local offset held a non-zero value advances
\* stream.ch by exactly 1
C14_MalformedAdvancesByOne ==
    [][(IsRead /\ Refilled(sourceStream, content, file).ok
               /\ MalformedAtForward(Refilled(sourceStream, content, file).st)
               /\ sourceStream'
                    = clox_SourceStreamRead(sourceStream, content, file, 1).st
               /\ sourceStream'
                    # clox_SourceStreamRead(sourceStream, content, file, 0).st)
          => sourceStream'.streamLocation.ch = sourceStream.streamLocation.ch + 1]_vars

\* C14, with the width stored: a read that returns a codepoint of the source
\* and whose local offset held a non-zero value advances stream.ch
C14_StoredWidthAdvances ==
    [][(IsRead /\ ret' >= 0 /\ ret' # NUL
               /\ sourceStream'
                    = clox_SourceStreamRead(sourceStream, content, file, 1).st
               /\ sourceStream'
                    # clox_SourceStreamRead(sourceStream, content, file, 0).st)
          => ULt(sourceStream.streamLocation.ch, sourceStream'.streamLocation.ch)]_vars
(***************************************************************************)
(* Reads under fairness: the caller keeps calling cloxSourceStreamRead     *)
(* for ever.  Only the last MaxKept results are kept, and every call       *)
(* flips the parity of the calls made, so that a call that leaves the      *)
(* stream as it found it is a step all the same.                           *)
(***************************************************************************)
\* the number of results kept by the caller that never stops
MaxKept == 2
LastReads(s) == IF Len(s) <= MaxKept THEN s ELSE Tail(s)

SourceStreamReadAgain ==
    /\ Running
    /\ \E g \in Garbage :
          LET r == clox_SourceStreamRead(sourceStream, content, file, g)
          IN /\ sourceStream' = r.st
             /\ file' = r.f
             /\ reads' = LastReads(reads \o <<r.result>>)
             /\ ret' = r.result
    /\ op' = "cloxSourceStreamRead"
    /\ before' = [op |-> op, ret |-> ret]
    /\ again' = 1 - again
    /\ UNCHANGED <<bufVars, cbVars, rdVars, dsVars, ckVars, ocVars, clVars, skVars,
                   brVars, u8Vars, gcVars, ldVars, raVars, content, fatal>>

\* the sources of one line: the line counters are the only ones a caller
\* that never stops can run up without end
InitStreamLive ==
    /\ InitStream
    /\ EOL \notin {content[i] : i \in 1..Len(content)}

NextStreamLive == SourceStreamReadAgain

SpecStreamLive ==
    InitStreamLive /\ [][NextStreamLive]_vars /\ WF_vars(SourceStreamReadAgain)

\* the file was read to its end: fread has set its end-of-file indicator
Exhausted == IsFile /\ file.eof

(***************************************************************************)
(* C15: over a finite source, repeated cloxSourceStreamRead calls          *)
(* eventually return EOF, and once a read has returned EOF because the     *)
(* source is exhausted every later read and peek returns EOF too.          *)
(***************************************************************************)
C15_EventuallyEOF ==
    <>(op = "cloxSourceStreamRead" /\ ret = EOF)

\* C15, the second part: after a read that returned EOF on an exhausted
\* source, the next read or peek returns EOF
C15_EOFSticks ==
    [][(/\ op = "cloxSourceStreamRead"
        /\ ret = EOF
        /\ Exhausted
        /\ op' \in {"cloxSourceStreamRead", "cloxSourceStreamPeek"})
          => ret' = EOF]_vars
(***************************************************************************)
(* Reads and peeks alone.                                                  *)
(***************************************************************************)
NextPeek ==
    \/ SourceStreamRead
    \/ SourceStreamPeek

SpecPeek == InitStream /\ [][NextPeek]_vars

Locations(st) == <<st.streamLocation, st.beginLocation, st.forwardLocation>>

(***************************************************************************)
(* C16: two consecutive cloxSourceStreamPeek calls return the same         *)
(* codepoint and leave the stream, begin and forward locations as they     *)
(* were before the first peek, also when the peek refills the buffer:      *)
(* every peek leaves the three locations alone, and a peek that follows a  *)
(* peek returns what that one returned.                                    *)
(***************************************************************************)
C16_PeekPeekLeavesLocations ==
    [][op' = "cloxSourceStreamPeek"
          => /\ Locations(sourceStream') = Locations(sourceStream)
             /\ op = "cloxSourceStreamPeek" => ret' = ret]_vars

\* C16, the codepoint alone: a peek that follows a peek returns the same
C16_PeekPeekSameCodepoint ==
    (op = "cloxSourceStreamPeek" /\ before.op = "cloxSourceStreamPeek")
        => ret = before.ret

\* C16, without a refill: a peek that does not need a refill leaves the
\* three locations alone
C16_PeekInsideBufferLeavesLocations ==
    [][(op' = "cloxSourceStreamPeek" /\ ~clox_SourceStreamNeedsARefill(sourceStream, 0))
          => Locations(sourceStream') = Locations(sourceStream)]_vars

(***************************************************************************)
(* C17: if cloxSourceStreamPeek returns the codepoint c, a                 *)
(* cloxSourceStreamRead called immediately afterwards returns c.           *)
(***************************************************************************)
C17_PeekThenReadSame ==
    (op = "cloxSourceStreamRead" /\ before.op = "cloxSourceStreamPeek")
        => ret = before.ret

\* a read that followed a peek returned the codepoint U+4E2D of E4 B8 AD
C17_Witness ==
    /\ op = "cloxSourceStreamRead"
    /\ before.op = "cloxSourceStreamPeek"
    /\ before.ret = 20013
    /\ ret = 20013

\* a read that followed a peek which refilled the buffer with the second
\* page of the file returned that page's first byte
C17_WitnessRefill ==
    /\ op = "cloxSourceStreamRead"
    /\ before.op = "cloxSourceStreamPeek"
    /\ file.pos > CLOX_PAGESIZ
    /\ sourceStream.forwardLocation.ch = 1
    /\ ret = 98
(***************************************************************************)
(* Closing and deleting a source stream.  fclose returns 0, or EOF when it *)
(* fails; either way the FILE is released by the call.  A caller calls     *)
(* nothing on a stream after cloxDeleteSourceStream, which frees it.       *)
(***************************************************************************)
\* the most calls of fclose on one FILE
MaxCloses == 3

\* what fclose returns
FcloseResults == {0, EOF}

\* cloxCloseSourceStream, fclose returning closed: the stream, what the
\* function returns and whether it has called fclose
cloxCloseSourceStream(st, closed) ==
    IF st.isOpen
    THEN [st |-> [st EXCEPT !.isOpen = (closed # 0)],
          \* (bool_t)fclose(...): unsigned char
          result |-> IF closed = 0 THEN 0 ELSE BYTE_MAX,
          called |-> TRUE]
    ELSE [st |-> st, result |-> 0, called |-> FALSE]

CloseApply(name, r) ==
    /\ sourceStream' = r.st
    /\ fcloses' = IF r.called THEN fcloses + 1 ELSE fcloses
    /\ ret' = r.result
    /\ op' = name
    /\ before' = [op |-> op, ret |-> ret]
    /\ UNCHANGED <<othersOfClose, content, file, reads, fatal>>

CloseSourceStream ==
    /\ Running
    /\ ~deleted
    /\ fcloses < MaxCloses
    /\ \E closed \in FcloseResults :
          CloseApply("cloxCloseSourceStream", cloxCloseSourceStream(sourceStream, closed))
    /\ UNCHANGED deleted

\* cloxDeleteSourceStream: the close, then the buffer and the stream freed
DeleteSourceStream ==
    /\ Running
    /\ ~deleted
    /\ fcloses < MaxCloses
    /\ \E closed \in FcloseResults :
          CloseApply("cloxDeleteSourceStream", cloxCloseSourceStream(sourceStream, closed))
    /\ deleted' = TRUE

\* a read of a stream on which neither function was called yet
ReadBeforeClose ==
    /\ ~deleted
    /\ op \notin {"cloxCloseSourceStream", "cloxDeleteSourceStream"}
    /\ fcloses = 0
    /\ SourceStreamRead

NextClose ==
    \/ ReadBeforeClose
    \/ CloseSourceStream
    \/ DeleteSourceStream

SpecClose == InitStream /\ [][NextClose]_vars

(***************************************************************************)
(* C18: cloxCloseSourceStream is idempotent: a close (or a delete) that    *)
(* follows a close leaves the stream as the first close left it, and over  *)
(* any sequence of close and delete calls the FILE is released at most     *)
(* once.                                                                   *)
(***************************************************************************)
C18_CloseIdempotent ==
    /\ fcloses <= 1
    /\ (before.op = "cloxCloseSourceStream"
          /\ op \in {"cloxCloseSourceStream", "cloxDeleteSourceStream"})
          => ~sourceStream.isOpen

\* C18, when fclose succeeds: once a close has returned with the stream not
\* open, no later close or delete calls fclose again
C18_ClosedStaysClosed ==
    [][(~sourceStream.isOpen /\ op = "cloxCloseSourceStream")
          => (fcloses' = fcloses /\ ~sourceStream'.isOpen)]_vars
\* the location loc2 follows loc in one call: its line has not decreased,
\* and its column was set back to 0 exactly if newline says so
LineAndColumnKept(loc, loc2, newline) ==
    /\ ~ULt(loc2.ln, loc.ln)
    /\ (loc.co # 0 /\ loc2.co = 0) => newline
    /\ newline => loc2.co = 0

(***************************************************************************)
(* C19: over any sequence of reads, peeks and refills, for the stream      *)
(* location and for the forward location the line number never decreases,  *)
(* and the column is set back to 0 only by a read that returns a newline,  *)
(* and by every such read.                                                 *)
(***************************************************************************)
C19_LinesAndColumns ==
    [][/\ LineAndColumnKept(sourceStream.streamLocation, sourceStream'.streamLocation,
                            IsRead /\ ret' = EOL)
       /\ LineAndColumnKept(sourceStream.forwardLocation, sourceStream'.forwardLocation,
                            IsRead /\ ret' = EOL)]_vars

\* C19, the stream location alone
C19_StreamLocationLinesAndColumns ==
    [][LineAndColumnKept(sourceStream.streamLocation, sourceStream'.streamLocation,
                         IsRead /\ ret' = EOL)]_vars
(***************************************************************************)
(* cloxCodeBlockGet (lib/vm/code_block.c) on a block bytes were pushed     *)
(* into.                                                                   *)
(***************************************************************************)
\* return (index > 0) && (index < codeBlock->capacity)
clox_CodeBlockCheckBounds(b, index) == ULt(0, index) /\ ULt(index, b.capacity)

\* cloxCodeBlockGet: the abort it ends in, if any, and the bytes it can return
cloxCodeBlockGet(b, index) ==
    IF clox_CodeBlockCheckBounds(b, index)
    THEN IF InArray(b, index)
         THEN [fatal |-> "", bytes |-> ReadCell(b.mem[index + 1])]
         ELSE [fatal |-> "memory fault", bytes |-> {0}]
    ELSE [fatal |-> "index out of bounds", bytes |-> {0}]

\* the indices cloxCodeBlockGet is called with: the first ones, and SIZE_MAX
GetIndexes == 0..(CLOX_SIZEOF_WORD_PTR + 1) \cup {0 - 1}

CodeBlockGet ==
    /\ Running
    /\ \E index \in GetIndexes :
          LET r == cloxCodeBlockGet(codeBlock, index)
          IN /\ fatal' = r.fatal
             /\ \E v \in r.bytes : ret' = v
    /\ op' = "cloxCodeBlockGet"
    /\ UNCHANGED <<codeBlock, othersOfCodeBlock>>

NextGet ==
    \/ BulkCodeBlockPush
    \/ CodeBlockGet

SpecGet == InitCodeBlock /\ [][NextGet]_vars

\* the step is a call of cloxCodeBlockGet with the index
IsGet(index) ==
    /\ Running
    /\ op' = "cloxCodeBlockGet"
    /\ codeBlock' = codeBlock
    /\ fatal' = cloxCodeBlockGet(codeBlock, index).fatal
    /\ ret' \in cloxCodeBlockGet(codeBlock, index).bytes

(***************************************************************************)
(* C20: cloxCodeBlockGet(block, index) returns the stored byte for every   *)
(* index with 0 <= index < count, index 0 included, and raises the fatal   *)
(* index-out-of-bounds error for every index >= count, the indices between *)
(* count and capacity included.                                            *)
(***************************************************************************)
C20_GetIsBoundsChecked ==
    [][\A index \in GetIndexes :
          IsGet(index) =>
              IF ULt(index, codeBlock.count)
              THEN fatal' = "" /\ ret' = codeBlock.mem[index + 1]
              ELSE fatal' = "index out of bounds"]_vars

\* C20, the lower end: cloxCodeBlockGet returns the stored byte for every
\* index below count
C20_GetReturnsStoredByte ==
    [][\A index \in GetIndexes :
          (IsGet(index) /\ ULt(index, codeBlock.count))
              => (fatal' = "" /\ ret' = codeBlock.mem[index + 1])]_vars

\* C20, the upper end: cloxCodeBlockGet aborts for every index from count on
C20_GetAbortsFromCountOn ==
    [][\A index \in GetIndexes :
          (IsGet(index) /\ ULe(codeBlock.count, index))
              => fatal' = "index out of bounds"]_vars
(***************************************************************************)
(* cloxCodeBlockPeek and cloxCodeBlockTop (lib/vm/code_block.c) on a block *)
(* bytes were pushed into.                                                 *)
(***************************************************************************)
\* cloxCodeBlockPeek: the bounds check is made on count - offset, the byte
\* read is array[count - offset - 1]
cloxCodeBlockPeek(b, offset) ==
    IF clox_CodeBlockCheckBounds(b, b.count - offset)
    THEN IF InArray(b, b.count - offset - 1)
         THEN [fatal |-> "", bytes |-> ReadCell(b.mem[b.count - offset])]
         ELSE [fatal |-> "memory fault", bytes |-> {0}]
    ELSE [fatal |-> "index out of bounds", bytes |-> {0}]

\* cloxCodeBlockTop: array[count - 1] if count > 0
cloxCodeBlockTop(b) ==
    IF ULt(0, b.count)
    THEN IF InArray(b, b.count - 1)
         THEN [fatal |-> "", bytes |-> ReadCell(b.mem[b.count])]
         ELSE [fatal |-> "memory fault", bytes |-> {0}]
    ELSE [fatal |-> "buffer underrun", bytes |-> {0}]

\* the offsets cloxCodeBlockPeek is called with
PeekOffsets == 0..(MaxPush + 1)

\* the pushes that fill the block, up to its capacity and past it
PeekSetupPush ==
    /\ ULt(codeBlock.count, MaxPush)
    /\ CodeBlockPushOf(Bytes)

CodeBlockPeek ==
    /\ Running
    /\ \E offset \in PeekOffsets :
          LET r == cloxCodeBlockPeek(codeBlock, offset)
          IN /\ fatal' = r.fatal
             /\ \E v \in r.bytes : ret' = v
    /\ op' = "cloxCodeBlockPeek"
    /\ UNCHANGED <<codeBlock, othersOfCodeBlock>>

CodeBlockTop ==
    /\ Running
    /\ LET r == cloxCodeBlockTop(codeBlock)
       IN /\ fatal' = r.fatal
          /\ \E v \in r.bytes : ret' = v
    /\ op' = "cloxCodeBlockTop"
    /\ UNCHANGED <<codeBlock, othersOfCodeBlock>>

NextBlockPeek ==
    \/ PeekSetupPush
    \/ CodeBlockPeek
    \/ CodeBlockTop

SpecBlockPeek == InitCodeBlock /\ [][NextBlockPeek]_vars

\* the step is a call of cloxCodeBlockPeek with the offset
IsPeek(offset) ==
    /\ Running
    /\ op' = "cloxCodeBlockPeek"
    /\ codeBlock' = codeBlock
    /\ fatal' = cloxCodeBlockPeek(codeBlock, offset).fatal
    /\ ret' \in cloxCodeBlockPeek(codeBlock, offset).bytes

(***************************************************************************)
(* C21: cloxCodeBlockPeek(block, k) returns the byte k positions below the *)
(* last pushed byte for every k < count (so the peek at 0 returns what     *)
(* cloxCodeBlockTop returns whenever count > 0, also when count equals     *)
(* capacity), and raises the fatal index-out-of-bounds error for every     *)
(* k >= count.                                                             *)
(***************************************************************************)
C21_PeekBelowTheTop ==
    [][\A k \in PeekOffsets :
          IsPeek(k) =>
              IF ULt(k, codeBlock.count)
              THEN /\ fatal' = ""
                   /\ ret' = codeBlock.mem[codeBlock.count - k]
                   /\ k = 0 => /\ cloxCodeBlockTop(codeBlock).fatal = ""
                               /\ ret' \in cloxCodeBlockTop(codeBlock).bytes
              ELSE fatal' = "index out of bounds"]_vars

\* C21, the upper end: cloxCodeBlockPeek aborts with index out of bounds for
\* every offset from count on
C21_PeekAbortsFromCountOn ==
    [][\A k \in PeekOffsets :
          (IsPeek(k) /\ ULe(codeBlock.count, k))
              => fatal' = "index out of bounds"]_vars

\* C21 below a full block: with count < capacity, cloxCodeBlockPeek returns
\* the byte k positions below the last pushed one for every k < count
C21_PeekBelowCapacity ==
    [][\A k \in PeekOffsets :
          (IsPeek(k) /\ ULt(k, codeBlock.count)
                     /\ ULt(codeBlock.count, codeBlock.capacity))
              => (fatal' = "" /\ ret' = codeBlock.mem[codeBlock.count - k])]_vars
(***************************************************************************)
(* The byte buffer used as a stack (lib/vm/buffer.c): pushes of distinct   *)
(* bytes, cloxBufferTop and cloxBufferPop, among cloxBufferResize calls.    *)
(***************************************************************************)
\* cloxBufferTop: array[count - 1] if count > 0
cloxBufferTop(b) ==
    IF ULt(0, b.count)
    THEN IF InArray(b, b.count - 1)
         THEN [fatal |-> "", bytes |-> ReadCell(b.mem[b.count])]
         ELSE [fatal |-> "memory fault", bytes |-> {0}]
    ELSE [fatal |-> "buffer underflow", bytes |-> {0}]

\* a pop that does not look at count
PopUnchecked(b) ==
    IF InArray(b, b.count - 1)
    THEN [b |-> [b EXCEPT !.count = b.count - 1], fatal |-> "",
          bytes |-> ReadCell(b.mem[b.count])]
    ELSE [b |-> [b EXCEPT !.count = b.count - 1], fatal |-> "memory fault",
          bytes |-> {0}]

\* cloxBufferPop: array[--count] if count > 0 (CLOX_BUFFER_AUTO_SHRINK is
\* not defined)
cloxBufferPop(b) ==
    IF ULt(0, b.count)
    THEN IF InArray(b, b.count - 1)
         THEN [b |-> [b EXCEPT !.count = b.count - 1], fatal |-> "",
               bytes |-> ReadCell(b.mem[b.count])]
         ELSE [b |-> [b EXCEPT !.count = b.count - 1], fatal |-> "memory fault",
               bytes |-> {0}]
    ELSE [b |-> b, fatal |-> "buffer underflow", bytes |-> {0}]

othersOfStack == <<cbVars, rdVars, dsVars, ckVars, ssVars, ocVars, hsVars, clVars, lvVars, brVars, u8Vars, gcVars, ldVars, raVars>>

\* the bytes the next push can push: one of Bytes first, the next one after
Last(s) == s[Len(s)]
NextValues == IF pushed = <<>> THEN Bytes ELSE {Last(pushed) + 1}

StackPushOf(values, n) ==
    /\ Running
    /\ Len(pushed) < n
    /\ \E v \in values, z \in ZeroSizeResults :
          LET r == cloxBufferPush(buffer, v, z)
          IN /\ buffer' = r.b
             /\ fatal' = r.fatal
             /\ pushed' = Append(pushed, v)
    /\ was' = buffer
    /\ op' = "cloxBufferPush"
    /\ ret' = 0
    /\ UNCHANGED othersOfStack

StackPush ==
    /\ calls < MaxCalls
    /\ calls' = calls + 1
    /\ StackPushOf(NextValues, MaxPush)

StackTop ==
    /\ Running
    /\ LET r == cloxBufferTop(buffer)
       IN /\ fatal' = r.fatal
          /\ \E v \in r.bytes : ret' = v
    /\ op' = "cloxBufferTop"
    /\ calls < MaxCalls
    /\ calls' = calls + 1
    /\ UNCHANGED <<buffer, skVars, othersOfStack>>

StackPop ==
    /\ Running
    /\ LET r == cloxBufferPop(buffer)
       IN /\ buffer' = r.b
          /\ fatal' = r.fatal
          /\ \E v \in r.bytes : ret' = v
    /\ op' = "cloxBufferPop"
    /\ calls < MaxCalls
    /\ calls' = calls + 1
    /\ UNCHANGED <<skVars, othersOfStack>>

NextStack ==
    \/ StackPush
    \/ StackTop
    \/ StackPop
    \/ BufferResize

SpecStack == InitBuffer /\ [][NextStack]_vars

(***************************************************************************)
(* C22: cloxBufferTop and cloxBufferPop called on a buffer with count = 0  *)
(* raise the fatal underflow error and change neither count nor capacity   *)
(* nor the stored bytes.                                                   *)
(***************************************************************************)
C22_EmptyTopAndPopUnderflow ==
    [][(Running /\ buffer.count = 0 /\ op' \in {"cloxBufferTop", "cloxBufferPop"})
          => (fatal' = "buffer underflow" /\ buffer' = buffer)]_vars

\* a pop of the empty buffer that once held a byte has aborted
C22_Witness ==
    /\ op = "cloxBufferPop"
    /\ fatal = "buffer underflow"
    /\ buffer.count = 0
    /\ ULt(0, buffer.capacity)
    /\ pushed # <<>>

\* a top of the buffer created with capacity 0 has aborted
C22_WitnessTop ==
    /\ op = "cloxBufferTop"
    /\ fatal = "buffer underflow"
    /\ buffer = EmptyBlock
(***************************************************************************)
(* C23: push and pop are inverse on a byte buffer: for any buffer state    *)
(* and byte v, cloxBufferPush(v) followed by cloxBufferPop returns v and   *)
(* restores the previous count and the previous stored bytes (only         *)
(* capacity may have grown); a pop decreases count by exactly 1 and        *)
(* returns the byte cloxBufferTop would have returned.                     *)
(***************************************************************************)
C23_PushThenPopRestores ==
    [][(Running /\ op = "cloxBufferPush" /\ op' = "cloxBufferPop")
          => /\ fatal' = ""
             /\ ret' = Last(pushed)
             /\ buffer'.count = was.count
             /\ Contents(buffer') = Contents(was)
             /\ ULe(was.capacity, buffer'.capacity)
             /\ buffer'.count = buffer.count - 1
             /\ cloxBufferTop(buffer).fatal = ""
             /\ ret' \in cloxBufferTop(buffer).bytes]_vars

\* C23 on the buffers whose count is within their capacity: the pop after
\* the push returns the byte pushed and restores count and bytes
C23_PushThenPopRestoresWithinCapacity ==
    [][(Running /\ op = "cloxBufferPush" /\ op' = "cloxBufferPop"
                /\ ULe(was.count, was.capacity))
          => /\ fatal' = ""
             /\ ret' = Last(pushed)
             /\ buffer'.count = was.count
             /\ Contents(buffer') = Contents(was)
             /\ ULe(was.capacity, buffer'.capacity)]_vars

\* C23, the pop alone: a pop that does not abort decreases count by exactly 1
\* and returns the byte cloxBufferTop returns on the buffer it is given
C23_PopTakesTheTop ==
    [][(Running /\ op' = "cloxBufferPop" /\ fatal' = "")
          => /\ buffer'.count = buffer.count - 1
             /\ cloxBufferTop(buffer).fatal = ""
             /\ ret' \in cloxBufferTop(buffer).bytes
             /\ buffer'.mem = buffer.mem]_vars
(***************************************************************************)
(* The growth of the byte buffer created with capacity 0: pushes of        *)
(* distinct bytes, cloxBufferTop after them.                               *)
(***************************************************************************)
\* the number of pushes
MaxGrow == 17

\* the bytes pushed: any of the first ones, then the next one after
GrowValues == IF pushed = <<>> THEN 1..MaxGrow ELSE {Last(pushed) + 1}

GrowPush == StackPushOf(GrowValues, MaxGrow) /\ UNCHANGED calls

GrowTop ==
    /\ Running
    /\ LET r == cloxBufferTop(buffer)
       IN /\ fatal' = r.fatal
          /\ \E v \in r.bytes : ret' = v
    /\ op' = "cloxBufferTop"
    /\ UNCHANGED <<buffer, calls, skVars, othersOfStack>>

InitGrow ==
    /\ InitBuffer
    /\ buffer = EmptyBlock

NextGrow ==
    \/ GrowPush
    \/ GrowTop

SpecGrow == InitGrow /\ [][NextGrow]_vars

\* the capacity that doubling from one word-pointer size reaches for a count
RECURSIVE Doubled(_, _)
Doubled(capacity, count) ==
    IF count <= capacity THEN capacity ELSE Doubled(capacity * 2, count)

(***************************************************************************)
(* C24: starting from a byte buffer created with capacity 0, after the     *)
(* k-th cloxBufferPush (k = 1..17) cloxBufferTop returns the k-th pushed   *)
(* value, count equals k, and capacity is a power-of-two-rounded multiple  *)
(* of the word-pointer size that is >= count, the buffer growing by        *)
(* doubling from one word-pointer size each time count reaches capacity.   *)
(***************************************************************************)
C24_GrowthByDoubling ==
    (pushed # <<>>) =>
        /\ fatal = ""
        /\ buffer.count = Len(pushed)
        /\ Contents(buffer) = pushed
        /\ cloxBufferTop(buffer).fatal = ""
        /\ cloxBufferTop(buffer).bytes = {Last(pushed)}
        /\ (op = "cloxBufferTop" => ret = Last(pushed))
        /\ buffer.capacity = Doubled(CLOX_SIZEOF_WORD_PTR, buffer.count)

\* C24 without the doubling: after the k-th push the top is the k-th pushed
\* value, count is k, and capacity is a multiple of the word-pointer size
\* that is >= count
C24_TopCountAndRoom ==
    (pushed # <<>>) =>
        /\ fatal = ""
        /\ buffer.count = Len(pushed)
        /\ Contents(buffer) = pushed
        /\ cloxBufferTop(buffer).fatal = ""
        /\ cloxBufferTop(buffer).bytes = {Last(pushed)}
        /\ (op = "cloxBufferTop" => ret = Last(pushed))
        /\ buffer.capacity % CLOX_SIZEOF_WORD_PTR = 0
        /\ buffer.count <= buffer.capacity

\* what clox_BufferGrow does: the buffer grows by half its capacity, rounded
\* up to the word-pointer size, each time count reaches capacity
C24_GrowthByHalf ==
    [][(op' = "cloxBufferPush" /\ fatal' = "")
          => buffer'.capacity
               = IF buffer.count < buffer.capacity THEN buffer.capacity
                 ELSE IF buffer.capacity = 0 THEN CLOX_SIZEOF_WORD_PTR
                 ELSE alignto(buffer.capacity + buffer.capacity \div 2,
                              CLOX_SIZEOF_WORD_PTR)]_vars
(***************************************************************************)
(* cloxCodeBlockReaderRead (lib/vm/code_block.c): the bulk read of the     *)
(* code block reader, after single reads moved its index.                  *)
(***************************************************************************)
\* the most bytes asked of one cloxCodeBlockReaderRead
MaxRead == 3

Min(a, b) == IF a <= b THEN a ELSE b

\* the position read for outBuffer[readCount]: the loop increments i along
\* with readCount and reads array[i + readCount]
ReadPosition(index, readCount) == index + readCount + readCount

\* cloxCodeBlockReaderRead on the reader r over the block b with a non-null
\* outBuffer: the reader after it, the contents outBuffer can have, the count
\* returned
cloxCodeBlockReaderRead(b, r, count) ==
    LET m == IF ULt(r.index, r.count) THEN Min(count, r.count - r.index) ELSE 0 IN
    IF \E j \in 0..(m - 1) : ~InArray(b, ReadPosition(r.index, j))
    THEN [r |-> r, outs |-> {<<>>}, result |-> 0, fatal |-> "memory fault"]
    ELSE [r |-> [r EXCEPT !.index = r.index + m],
          outs |-> {s \in [1..m -> {0} \cup Bytes] :
                       \A j \in 1..m :
                          s[j] \in ReadCell(b.mem[ReadPosition(r.index, j - 1) + 1])},
          result |-> m,
          fatal |-> ""]

\* the counts cloxCodeBlockReaderRead is called with
ReadCounts == 0..MaxRead

CodeBlockReaderRead ==
    /\ Running
    /\ reader.live
    /\ \E count \in ReadCounts :
          LET r == cloxCodeBlockReaderRead(codeBlock, reader, count)
          IN /\ reader' = r.r
             /\ \E s \in r.outs : got' = s
             /\ ret' = r.result
             /\ fatal' = r.fatal
    /\ op' = "cloxCodeBlockReaderRead"
    /\ UNCHANGED othersOfReader

NextRead ==
    \/ BulkCodeBlockPush
    \/ CreateCodeBlockReader
    \/ CodeBlockReaderGet
    \/ CodeBlockReaderRead

SpecRead == InitCodeBlock /\ [][NextRead]_vars

\* the step is a call of cloxCodeBlockReaderRead asking for count bytes
IsBulkRead(count) ==
    /\ Running
    /\ reader.live
    /\ op' = "cloxCodeBlockReaderRead"
    /\ reader' = cloxCodeBlockReaderRead(codeBlock, reader, count).r
    /\ got' \in cloxCodeBlockReaderRead(codeBlock, reader, count).outs
    /\ ret' = cloxCodeBlockReaderRead(codeBlock, reader, count).result
    /\ fatal' = cloxCodeBlockReaderRead(codeBlock, reader, count).fatal

\* m = min(n, c - i)
Available(r, n) == Min(n, r.count - r.index)

(***************************************************************************)
(* C25: cloxCodeBlockReaderRead(reader, out, n) on a reader at index i     *)
(* over count c copies m = min(n, c - i) bytes, out[j] = array[i + j] for  *)
(* every j < m, advances index to i + m and returns m.                     *)
(***************************************************************************)
C25_ReadCopiesTheNextBytes ==
    [][\A n \in ReadCounts :
          (IsBulkRead(n) /\ ULe(reader.index, reader.count))
              => /\ fatal' = ""
                 /\ ret' = Available(reader, n)
                 /\ reader'.index = reader.index + Available(reader, n)
                 /\ got' = SubSeq(codeBlock.mem, reader.index + 1,
                                  reader.index + Available(reader, n))]_vars

\* C25, the counting: a cloxCodeBlockReaderRead that does not abort returns
\* m = min(n, c - i) and advances index to i + m
C25_ReadCountsAndAdvances ==
    [][\A n \in ReadCounts :
          (IsBulkRead(n) /\ ULe(reader.index, reader.count) /\ fatal' = "")
              => /\ ret' = Available(reader, n)
                 /\ Len(got') = Available(reader, n)
                 /\ reader'.index = reader.index + Available(reader, n)]_vars

\* C25, the first byte: out[0] = array[i] whenever a byte was copied
C25_ReadCopiesTheFirstByte ==
    [][\A n \in ReadCounts :
          (IsBulkRead(n) /\ fatal' = "" /\ ret' > 0)
              => got'[1] = codeBlock.mem[reader.index + 1]]_vars
(***************************************************************************)
(* The reader of the byte buffer (lib/vm/buffer.c): created over a buffer  *)
(* that bytes were pushed into, read, deleted; the owner is read and       *)
(* deleted after it.  frees counts the free() calls on the owner's array,  *)
(* of which the buffer and its reader both hold the pointer.               *)
(***************************************************************************)
othersOfBorrow ==
    <<calls, skVars, cbVars, rdVars, dsVars, ckVars, ssVars, ocVars, hsVars, clVars, lvVars, u8Vars, gcVars, ldVars, raVars>>

\* what free(array) can end in: nothing for a null pointer or a block that is
\* allocated, and for a block freed before either an abort of the allocator
\* or nothing that shows
FreeOutcomes(array, freed) ==
    IF array = NULL \/ freed = 0 THEN {""} ELSE {"", "double free"}

\* free(array) counted: free(NULL) frees nothing
Freed(array, freed) == IF array = NULL THEN freed ELSE freed + 1

cloxInitBufferReader(b) ==
    [array |-> b.array, count |-> b.count, index |-> 0, state |-> "live"]

BorrowPush ==
    /\ ~ownerGone
    /\ frees = 0
    /\ bufferReader.state = "none"
    /\ StackPushOf(NextValues, MaxHeld)
    /\ UNCHANGED calls

CreateBufferReader ==
    /\ Running
    /\ ~ownerGone
    /\ bufferReader.state = "none"
    /\ bufferReader' = cloxInitBufferReader(buffer)
    /\ op' = "cloxCreateBufferReader"
    /\ ret' = 0
    /\ UNCHANGED <<buffer, frees, ownerGone, fatal, othersOfBorrow>>

\* cloxBufferReaderNext; the array is the owner's, a read of it after it was
\* freed yields any byte or a fault
BufferReaderNext ==
    /\ Running
    /\ bufferReader.state = "live"
    /\ IF ULt(bufferReader.index, bufferReader.count)
       THEN IF InArray(buffer, bufferReader.index) /\ frees = 0
            THEN /\ \E v \in ReadCell(buffer.mem[bufferReader.index + 1]) : ret' = v
                 /\ bufferReader' = [bufferReader EXCEPT !.index = bufferReader.index + 1]
                 /\ fatal' = ""
            ELSE /\ ret' = 0
                 /\ fatal' = "memory fault"
                 /\ UNCHANGED bufferReader
       ELSE /\ ret' = 0
            /\ fatal' = "buffer overrun"
            /\ UNCHANGED bufferReader
    /\ op' = "cloxBufferReaderNext"
    /\ UNCHANGED <<buffer, frees, ownerGone, othersOfBorrow>>

\* free(bufferReader->array); free(bufferReader)
DeleteBufferReader ==
    /\ Running
    /\ bufferReader.state = "live"
    /\ frees' = Freed(bufferReader.array, frees)
    /\ \E f \in FreeOutcomes(bufferReader.array, frees) : fatal' = f
    /\ bufferReader' = [bufferReader EXCEPT !.state = "deleted"]
    /\ op' = "cloxDeleteBufferReader"
    /\ ret' = 0
    /\ UNCHANGED <<buffer, ownerGone, othersOfBorrow>>

\* cloxBufferTop on the owner; a read of the array after it was freed yields
\* any byte or a fault
OwnerTop ==
    /\ Running
    /\ ~ownerGone
    /\ LET r == cloxBufferTop(buffer)
       IN IF r.fatal = "" /\ frees > 0
          THEN \/ fatal' = "" /\ ret' \in {0} \cup Bytes
               \/ fatal' = "memory fault" /\ ret' = 0
          ELSE /\ fatal' = r.fatal
               /\ \E v \in r.bytes : ret' = v
    /\ op' = "cloxBufferTop"
    /\ UNCHANGED <<buffer, brVars, othersOfBorrow>>

\* free(buffer->array); free(buffer)
DeleteBuffer ==
    /\ Running
    /\ ~ownerGone
    /\ frees' = Freed(buffer.array, frees)
    /\ \E f \in FreeOutcomes(buffer.array, frees) : fatal' = f
    /\ ownerGone' = TRUE
    /\ op' = "cloxDeleteBuffer"
    /\ ret' = 0
    /\ UNCHANGED <<buffer, bufferReader, othersOfBorrow>>

NextBorrow ==
    \/ BorrowPush
    \/ CreateBufferReader
    \/ BufferReaderNext
    \/ DeleteBufferReader
    \/ OwnerTop
    \/ DeleteBuffer

SpecBorrow == InitBuffer /\ [][NextBorrow]_vars

(***************************************************************************)
(* C26: deleting a reader that was created over a byte buffer leaves the   *)
(* owner's byte array allocated and unchanged: the owner can still be read *)
(* afterwards (its top is the last byte pushed), and deleting the owner    *)
(* later releases the array exactly once.                                  *)
(***************************************************************************)
C26_ReaderDeleteLeavesTheArray ==
    /\ (bufferReader.state = "deleted" /\ ~ownerGone) => frees = 0
    /\ (bufferReader.state = "deleted" /\ op = "cloxBufferTop" /\ pushed # <<>>)
          => (fatal = "" /\ ret = Last(pushed))
    /\ frees <= 1
    /\ (ownerGone /\ buffer.array # NULL) => frees = 1
    /\ fatal # "double free"

\* C26, the owner's fields: deleting the reader changes neither the owner's
\* count nor its capacity nor its array pointer
C26_ReaderDeleteLeavesTheFields ==
    [][op' = "cloxDeleteBufferReader" => buffer' = buffer]_vars

\* C26 without a reader deleted: the owner's array is released once, by
\* cloxDeleteBuffer
C26_ArrayFreedOnceWithoutReaderDelete ==
    bufferReader.state # "deleted" =>
        /\ frees = IF ownerGone /\ buffer.array # NULL THEN 1 ELSE 0
        /\ fatal # "double free"
\* the operand bytes the descriptor of an opcode requires
OperandBytes(c) ==
    LET mode == clox_OpCodeInfos(c).mode
    IN CASE mode = "NONE" -> 0 [] mode = "BYTE" -> 1 [] OTHER -> 3

\* Whether the instructions of code from index i on end in an opcode that
\* has fewer bytes after it than its descriptor requires.
RECURSIVE Truncated(_, _)
Truncated(code, i) ==
    IF i > Len(code)
    THEN FALSE
    ELSE IF i + OperandBytes(code[i]) > Len(code)
         THEN TRUE
         ELSE Truncated(code, i + 1 + OperandBytes(code[i]))

\* the disassembly has ended, by a return or by an abort
Ended == dpc = "done" \/ (dpc = "loop" /\ fatal # "")

(***************************************************************************)
(* C27: if the bytes remaining after an opcode are fewer than the operand  *)
(* bytes its descriptor requires, cloxDisassembleCodeBlock stops with the  *)
(* fatal 'buffer overrun' error, and it never reads an array position      *)
(* >= count.                                                               *)
(***************************************************************************)
C27_TruncatedOperandIsOverrun ==
    /\ (Ended /\ Truncated(Contents(codeBlock), 1)) => fatal = "buffer overrun"
    /\ dpc # "idle" => ULe(reader.index, reader.count)

\* C27, the reads: the reader of the disassembler never moves past count
C27_NeverReadsPastCount ==
    dpc # "idle" => ULe(reader.index, reader.count)

\* C27, one instruction: clox_DisassembleInstruction on a reader that stands
\* on a one-operand opcode in the last byte of the block aborts with 'buffer
\* overrun'
C27_LastByteOperandOverruns ==
    (Running /\ codeBlock.array # NULL /\ codeBlock.count > 0
             /\ codeBlock.count <= Len(codeBlock.mem)
             /\ codeBlock.mem[codeBlock.count] = CLOX_OP_CODE_LDB)
        => clox_DisassembleInstruction(
               codeBlock,
               [cloxInitCodeBlockReader(codeBlock) EXCEPT !.index = codeBlock.count - 1]
           ).fatal = "buffer overrun"
(***************************************************************************)
(* The instruction kinds (include/clox/vm/code.h): the 16-bit tags of      *)
(* CloxOpKind_t, the layout each one documents, cloxGetOpKindSize.  An     *)
(* opcode is defined with a kind by a cloxDefineOpCode entry of the        *)
(* descriptor table (lib/vm/code.c).                                       *)
(***************************************************************************)
CHAR_BIT == 8
CLOX_OP_KIND_FAST == 514
CLOX_OP_KIND_CTRL == 1027
CLOX_OP_KIND_DATA == 1028
CLOX_OP_KIND_REGS == 1029
CLOX_OP_KIND_LONG == 1542
CLOX_OP_KIND_JUMP == 1543
CLOX_OP_KIND_FULL == 2056

OpKinds ==
    {CLOX_OP_KIND_BYTE, CLOX_OP_KIND_FAST, CLOX_OP_KIND_CTRL, CLOX_OP_KIND_DATA,
     CLOX_OP_KIND_REGS, CLOX_OP_KIND_LONG, CLOX_OP_KIND_JUMP, CLOX_OP_KIND_FULL}

\* the operand fields after the opcode byte O, in bits, as the Layout note of
\* each kind lists them: b is an 8-bit field, h a 16-bit one, d a 32-bit one,
\* F the 8-bit flag
OpKindLayout(opKind) ==
    CASE opKind = CLOX_OP_KIND_BYTE -> <<>>
      [] opKind = CLOX_OP_KIND_FAST -> <<8>>
      [] opKind = CLOX_OP_KIND_CTRL -> <<16, 8>>
      [] opKind = CLOX_OP_KIND_DATA -> <<8, 16>>
      [] opKind = CLOX_OP_KIND_REGS -> <<8, 8, 8>>
      [] opKind = CLOX_OP_KIND_LONG -> <<8, 16, 16>>
      [] opKind = CLOX_OP_KIND_JUMP -> <<32, 8>>
      [] opKind = CLOX_OP_KIND_FULL -> <<16, 16, 16, 8>>

\* the low byte of a tag, its layout identifier
OpKindLayoutId(opKind) == opKind % (2 ^ CHAR_BIT)

\* ((opKind) >> CHAR_BIT)
cloxGetOpKindSize(opKind) == opKind \div (2 ^ CHAR_BIT)

\* the most opcodes defined next to nop
MaxDefined == 15

\* a cloxDefineOpCode entry gives the opcode c a name and a kind; the size
\* of its instructions is taken from the kind
DefineOpCode ==
    /\ Running
    /\ \E c \in 1..MaxDefined, opKind \in OpKinds :
          /\ opCode' = c
          /\ opCodeInfo' = [name |-> "op", func |-> NULL, code |-> c, kind |-> opKind]
          /\ ret' = cloxGetOpKindSize(opKind)
    /\ op' = "cloxGetOpKindSize"
    /\ UNCHANGED <<bufVars, cbVars, rdVars, dsVars, ckVars, ssVars, hsVars, clVars, lvVars, skVars,
                 brVars, u8Vars, gcVars, ldVars, raVars, fatal>>

NextKind == DefineOpCode

SpecKind == InitCodeBlock /\ [][NextKind]_vars

\* the bytes of a sequence of fields given in bits
RECURSIVE FieldBytes(_)
FieldBytes(fields) ==
    IF fields = <<>> THEN 0 ELSE Head(fields) \div CHAR_BIT + FieldBytes(Tail(fields))

\* the widths the claim lists: Byte 1, Fast 2, Ctrl 4, Data 4, Regs 4, Long 6,
\* Jump 6, Full 8
ListedWidth(opKind) ==
    CASE opKind = CLOX_OP_KIND_BYTE -> 1
      [] opKind = CLOX_OP_KIND_FAST -> 2
      [] opKind \in {CLOX_OP_KIND_CTRL, CLOX_OP_KIND_DATA, CLOX_OP_KIND_REGS} -> 4
      [] opKind \in {CLOX_OP_KIND_LONG, CLOX_OP_KIND_JUMP} -> 6
      [] opKind = CLOX_OP_KIND_FULL -> 8

\* the layouts as the claim has them: those of the kinds, but for Full an
\* 8-bit dst, three 16-bit fields and an 8-bit flag
StatedLayout(opKind) ==
    IF opKind = CLOX_OP_KIND_FULL THEN <<8, 16, 16, 16, 8>> ELSE OpKindLayout(opKind)

(***************************************************************************)
(* C28, as stated: for each of the eight instruction kinds the high byte   *)
(* of its 16-bit tag (cloxGetOpKindSize) equals the total instruction      *)
(* width in bytes, and that width equals 1 opcode byte plus the sum of the *)
(* widths of the operand fields of the kind's layout: Byte 1, Fast 2,      *)
(* Ctrl 4, Data 4, Regs 4, Long 6, Jump 6, Full 8, Full being an 8-bit     *)
(* dst, three 16-bit fields and an 8-bit flag.                             *)
(***************************************************************************)
C28_KindWidthsAsStated ==
    op = "cloxGetOpKindSize" =>
        /\ ret = ListedWidth(opCodeInfo.kind)
        /\ ret = 1 + FieldBytes(StatedLayout(opCodeInfo.kind))

(***************************************************************************)
(* C28, amended: the same with the layout Full has in the source, three    *)
(* 16-bit fields and an 8-bit flag: for each of the eight kinds the high   *)
(* byte of the tag is the listed width, and it is 1 plus the bytes of the  *)
(* operand fields of the kind's layout.                                    *)
(***************************************************************************)
C28_KindWidths ==
    op = "cloxGetOpKindSize" =>
        /\ ret = ListedWidth(opCodeInfo.kind)
        /\ ret = 1 + FieldBytes(OpKindLayout(opCodeInfo.kind))

\* an opcode of kind Full was defined and its size taken: 8
C28_Witness ==
    /\ op = "cloxGetOpKindSize"
    /\ opCodeInfo.kind = CLOX_OP_KIND_FULL
    /\ ret = 8
(***************************************************************************)
(* utf8_iterate on its own (lib/base/utf8.c): the caller hands it the      *)
(* bytes of a string and a length; a negative length stands for a          *)
(* NUL-terminated string.                                                  *)
(***************************************************************************)
\* the longest string handed to the decoder
MaxStr == 4

\* the bytes tried at each place of the string: around the ends of the ranges
\* of lead bytes at the first place, of second bytes at the second, of
\* continuation bytes after it
LeadBytes ==
    {0, 127, 128, 191, 192, 193, 194, 223, 224, 225, 236, 237, 238, 239, 240, 241, 243, 244,
     245, 247, 248, 255}
SecondBytes == {0, 127, 128, 143, 144, 159, 160, 191, 192, 255}
LaterBytes == {127, 128, 191, 192}
BytesAt(i) ==
    IF i = 1 THEN LeadBytes
    ELSE IF i = 2 THEN SecondBytes
    ELSE IF i <= 4 THEN LaterBytes
    ELSE {128}

\* the strings of k bytes
RECURSIVE StringsOf(_)
StringsOf(k) ==
    IF k = 0 THEN {<<>>} ELSE {Append(s, b) : s \in StringsOf(k - 1), b \in BytesAt(k)}

\* the calls: a string with its length or a shorter one, or with a negative
\* length
IterateCalls(longest) ==
    UNION {{[NoUtf8 EXCEPT !.str = s, !.strlen = l] : l \in -1..Len(s)} :
             s \in UNION {StringsOf(k) : k \in 0..longest}}

\* before a call of the UTF-8 functions: the arguments are chosen, nothing
\* else exists
InitUtf8(args) ==
    /\ utf8 \in args
    /\ op = "main"
    /\ ret = 0
    /\ fatal = ""
    /\ calls = 0
    /\ readerArray = NoArray
    /\ load = NoLoad
    /\ getChar = NoGetChar
    /\ bufferReader = NoBufferReader
    /\ frees = 0
    /\ ownerGone = FALSE
    /\ pushed = <<>>
    /\ was = EmptyBlock
    /\ again = 0
    /\ fcloses = 0
    /\ deleted = FALSE
    /\ before = NoCall
    /\ opCode = 0
    /\ opCodeInfo = NoInfo
    /\ buffer = EmptyBlock
    /\ codeBlock = EmptyBlock
    /\ reader = NoReader
    /\ got = <<>>
    /\ dpc = "idle"
    /\ out = <<>>
    /\ chunk = EmptyBlock
    /\ chunkReader = NoReader
    /\ cpc = "write"
    /\ given = <<>>
    /\ sourceStream = NoStream
    /\ content = <<>>
    /\ file = NoFile
    /\ reads = <<>>

\* the bytes the decoder can read: those of the string and, for a negative
\* length, the NUL that ends it (nothing after the first NUL is read)
Readable(u) == IF u.strlen < 0 THEN u.str \o <<NUL, NUL, NUL, NUL>> ELSE u.str

\* n = utf8_iterate(str, strlen, &dst)
Utf8Iterate ==
    /\ Running
    /\ LET it == utf8_iterate(Readable(utf8), utf8.strlen) IN
          /\ utf8' = [utf8 EXCEPT !.n = it.n, !.dst = it.dst]
          /\ ret' = it.n
    /\ op' = "utf8_iterate"
    /\ UNCHANGED <<bufVars, cbVars, rdVars, dsVars, ckVars, ssVars, ocVars, hsVars, clVars, lvVars,
                 skVars, brVars, gcVars, ldVars, raVars, fatal>>

InitIterate == InitUtf8(IterateCalls(MaxStr))

NextIterate == Utf8Iterate

SpecIterate == InitIterate /\ [][NextIterate]_vars

(***************************************************************************)
(* The reference decoder: UTF-8 as the standard defines it.  The lead byte *)
(* gives the width and its payload bits, every later byte is 10xxxxxx and  *)
(* gives six bits; the value must need that width (no overlong form), be   *)
(* no surrogate and be at most U+10FFFF.                                   *)
(***************************************************************************)
RefWidth(lead) ==
    IF lead < 128 THEN 1
    ELSE IF lead \in 192..223 THEN 2
    ELSE IF lead \in 224..239 THEN 3
    ELSE IF lead \in 240..247 THEN 4
    ELSE 0

RefPayload(lead) ==
    IF lead < 128 THEN lead
    ELSE IF lead < 224 THEN lead % 32
    ELSE IF lead < 240 THEN lead % 16
    ELSE lead % 8

\* the value of the first w bytes of s, from the i-th on, after acc
RECURSIVE RefValue(_, _, _, _)
RefValue(s, w, i, acc) ==
    IF i > w THEN acc ELSE RefValue(s, w, i + 1, acc * 64 + (s[i] % 64))

\* the least value that needs w bytes
RefLeast(w) == IF w = 1 THEN 0 ELSE IF w = 2 THEN 128 ELSE IF w = 3 THEN 2048 ELSE 65536

Surrogates == 55296..57343
MaxCodepoint == 1114111

Malformed == [n |-> 0, dst |-> -1]

\* the codepoint at the start of the len > 0 bytes of s and its width, or
\* Malformed
RefDecode(s, len) ==
    LET w == RefWidth(s[1]) IN
    IF w = 0 \/ w > len \/ \E i \in 2..w : s[i] \notin 128..191
    THEN Malformed
    ELSE LET v == RefValue(s, w, 2, RefPayload(s[1])) IN
         IF v < RefLeast(w) \/ v \in Surrogates \/ v > MaxCodepoint
         THEN Malformed
         ELSE [n |-> w, dst |-> v]

\* the bytes at hand in a call: strlen of them, or those up to the NUL
AtHand(u) == IF u.strlen < 0 THEN Len(Readable(u)) ELSE u.strlen

IteratedSome == op = "utf8_iterate" /\ utf8.strlen # 0

(***************************************************************************)
(* C29: utf8_iterate accepts a byte sequence exactly when it is            *)
(* well-formed UTF-8, and for every accepted sequence it returns the       *)
(* codepoint (and the width) the reference decoder returns; every other    *)
(* sequence is rejected with UTF8_ERROR_INVALIDUTF8 and *dst = -1.         *)
(***************************************************************************)
C29_IterateIsTheReferenceDecoder ==
    IteratedSome =>
        LET ref == RefDecode(Readable(utf8), AtHand(utf8)) IN
        /\ (utf8.n > 0) <=> (ref # Malformed)
        /\ ref # Malformed => utf8.n = ref.n /\ utf8.dst = ref.dst
        /\ ref = Malformed => utf8.n = UTF8_ERROR_INVALIDUTF8 /\ utf8.dst = -1

\* C29, the rejections it lists: a lead byte outside C2..F4 (and not ASCII), a
\* continuation byte outside 80..BF, a sequence cut short by the length, an
\* overlong form, a surrogate and a codepoint above U+10FFFF are all rejected
C29_RejectsTheListed ==
    IteratedSome =>
        LET s == Readable(utf8)
            w == RefWidth(s[1])
            whole == w > 0 /\ w <= Len(s)
            v == RefValue(s, w, 2, RefPayload(s[1]))
        IN  (\/ s[1] \in 128..193 \cup 245..255
             \/ w > AtHand(utf8)
             \/ whole /\ \E i \in 2..w : s[i] \notin 128..191
             \/ whole /\ v < RefLeast(w)
             \/ whole /\ v \in Surrogates
             \/ whole /\ v > MaxCodepoint)
            => utf8.n < 0

\* a sequence of four bytes was accepted: F4 8F BF BF, U+10FFFF
C29_Witness ==
    /\ op = "utf8_iterate"
    /\ utf8.str = <<244, 143, 191, 191>>
    /\ utf8.strlen = 4
    /\ utf8.n = 4
    /\ utf8.dst = MaxCodepoint

\* the rejections happen: a surrogate (ED A0 80), an overlong form (E0 9F BF),
\* a codepoint above U+10FFFF (F4 90 80 80) and a sequence cut short
C29_WitnessRejected ==
    /\ op = "utf8_iterate"
    /\ utf8.n = UTF8_ERROR_INVALIDUTF8
    /\ \/ utf8.str = <<237, 160, 128>> /\ utf8.strlen = 3
       \/ utf8.str = <<224, 159, 191>> /\ utf8.strlen = 3
       \/ utf8.str = <<244, 144, 128, 128>> /\ utf8.strlen = 4
       \/ utf8.str = <<244, 143, 191, 191>> /\ utf8.strlen = 3
(***************************************************************************)
(* utf8_encode_char (lib/base/utf8.c) and the round trip through           *)
(* utf8_iterate: the caller encodes a codepoint into a buffer and hands    *)
(* the bytes written, with their number, to the decoder.                   *)
(***************************************************************************)
\* one byte for every codepoint: (uint8_t)uc
EncodeOneByte(uc) == [n |-> 1, dst |-> <<uc % 256>>]

\* utf8_encode_char(uc, dst): the number of bytes written and the bytes
utf8_encode_char(uc) ==
    IF uc < 0
    THEN [n |-> 0, dst |-> <<>>]
    ELSE IF uc < 128
    THEN [n |-> 1, dst |-> <<uc % 256>>]
    ELSE IF uc < 2048
    THEN [n |-> 2, dst |-> <<(192 + (uc \div 64)) % 256, (128 + (uc % 64)) % 256>>]
    ELSE IF uc < 65536
    THEN [n |-> 3, dst |-> <<(224 + (uc \div 4096)) % 256,
                            (128 + ((uc \div 64) % 64)) % 256,
                            (128 + (uc % 64)) % 256>>]
    ELSE IF uc < 1114112
    THEN [n |-> 4, dst |-> <<(240 + (uc \div 262144)) % 256,
                            (128 + ((uc \div 4096) % 64)) % 256,
                            (128 + ((uc \div 64) % 64)) % 256,
                            (128 + (uc % 64)) % 256>>]
    ELSE [n |-> 0, dst |-> <<>>]

\* the codepoints encoded: those at most MaxAway from where the width or the
\* validity changes, and every Stride-th codepoint
MaxAway == 8
Stride == 4097
Boundaries == {0, 128, 2048, 55296, 57344, 65536, MaxCodepoint + 1}
EncodeCalls ==
    {[NoUtf8 EXCEPT !.uc = c] :
        c \in {b + d : b \in Boundaries, d \in (-MaxAway)..MaxAway}
              \cup {k * Stride : k \in 0..(MaxCodepoint \div Stride)}}

\* written = utf8_encode_char(uc, str); the bytes written are what the decoder
\* is handed next
Utf8EncodeChar ==
    /\ Running
    /\ LET e == utf8_encode_char(utf8.uc) IN
          /\ utf8' = [utf8 EXCEPT !.str = e.dst, !.strlen = e.n, !.written = e.n,
                                  !.n = 0, !.dst = -1]
          /\ ret' = e.n
    /\ op' = "utf8_encode_char"
    /\ UNCHANGED <<bufVars, cbVars, rdVars, dsVars, ckVars, ssVars, ocVars, hsVars, clVars, lvVars,
                 skVars, brVars, gcVars, ldVars, raVars, fatal>>

InitRoundTrip == InitUtf8(EncodeCalls)

NextRoundTrip == Utf8EncodeChar \/ Utf8Iterate

SpecRoundTrip == InitRoundTrip /\ [][NextRoundTrip]_vars

\* [0, 0x110000) without [0xD800, 0xE000)
ValidCodepoint(c) == c \in 0..MaxCodepoint /\ c \notin Surrogates

(***************************************************************************)
(* C30: for every valid codepoint c in [0, 0x110000) outside               *)
(* [0xD800, 0xE000), encoding c with utf8_encode_char and decoding the     *)
(* result with utf8_iterate returns c, with a byte-width equal to the      *)
(* number of bytes the encoder wrote.                                      *)
(***************************************************************************)
C30_EncodeThenIterate ==
    [][(/\ op = "utf8_encode_char"
        /\ op' = "utf8_iterate"
        /\ ValidCodepoint(utf8.uc))
       => /\ utf8'.dst = utf8.uc
          /\ utf8'.n = utf8.written
          /\ utf8.written = Len(utf8.str)
          /\ utf8.written > 0]_vars

\* U+10FFFF was encoded in four bytes and decoded from them
C30_Witness ==
    /\ op = "utf8_iterate"
    /\ utf8.uc = MaxCodepoint
    /\ utf8.written = 4
    /\ utf8.str = <<244, 143, 191, 191>>
    /\ utf8.n = 4
    /\ utf8.dst = MaxCodepoint

\* and so was a codepoint of each other width: U+007F, U+0080, U+E000
C30_WitnessWidths ==
    /\ op = "utf8_iterate"
    /\ utf8.dst = utf8.uc
    /\ utf8.n = utf8.written
    /\ \/ utf8.uc = 127 /\ utf8.n = 1
       \/ utf8.uc = 128 /\ utf8.n = 2
       \/ utf8.uc = 57344 /\ utf8.n = 3
(***************************************************************************)
(* C31: the value a source stream read returns for malformed UTF-8 is      *)
(* different from the end-of-input value -1, so a caller can always tell a *)
(* decode error from end of input.                                         *)
(***************************************************************************)
C31_DecodeErrorIsNotEOF ==
    [][(/\ IsRead
        /\ Refilled(sourceStream, content, file).ok
        /\ MalformedAtForward(Refilled(sourceStream, content, file).st))
       => ret' # EOF]_vars

\* C31, what the read does return: utf8_iterate stores -1 in *dst before it
\* looks at a byte, and the read hands it on, so the read of a malformed
\* sequence returns the value of EOF
C31_DecodeErrorReturnsMinusOne ==
    [][(/\ IsRead
        /\ Refilled(sourceStream, content, file).ok
        /\ MalformedAtForward(Refilled(sourceStream, content, file).st))
       => ret' = -1]_vars
(***************************************************************************)
(* cloxSourceBufferGetChar called with an output width                     *)
(* (lib/source/source_buffer.c): the caller's variable holds some value    *)
(* before the call, and the function stores the width only                 *)
(* 'if (outOffset && *outOffset)'.                                         *)
(***************************************************************************)
\* what the caller's variable holds before the call
Priors == {0, 1, 7}

\* the value of *outOffset after the call: the width computed, or whatever
\* the local offset held where no width was computed, stored over a non-zero
\* value only
StoredOffset(g, prior, garbage) ==
    IF prior # 0 THEN (IF g.assigned THEN g.offset ELSE garbage) ELSE prior

SourceBufferGetChar ==
    /\ Running
    /\ \E position \in 0..(sourceStream.size + 1), prior \in Priors, garbage \in Garbage :
          LET g == cloxSourceBufferGetChar(sourceStream, position) IN
          /\ getChar' = [position |-> position, prior |-> prior,
                         offset |-> StoredOffset(g, prior, garbage)]
          /\ ret' = g.result
    /\ op' = "cloxSourceBufferGetChar"
    /\ UNCHANGED <<bufVars, cbVars, rdVars, dsVars, ckVars, ssVars, ocVars, hsVars, clVars, lvVars,
                 skVars, brVars, u8Vars, ldVars, raVars, fatal>>

\* the buffers: those of the streams created from a text
InitGetChar == InitStream /\ sourceStream.stream = NULL

NextGetChar == SourceBufferGetChar

SpecGetChar == InitGetChar /\ [][NextGetChar]_vars

\* the number of bytes that make up the codepoint c in the encoding
BytesOf(c, encoding) == IF encoding = "ASCII" THEN 1 ELSE utf8_encode_char(c).n

GotChar == op = "cloxSourceBufferGetChar"

(***************************************************************************)
(* C32: for every cloxSourceBufferGetChar call that is given an output     *)
(* width, the width it reports equals the number of bytes that make up the *)
(* returned codepoint, lies in {0, 1, 2, 3, 4}, and is 0 only when         *)
(* position >= size (where the result is EOF); the reported width never    *)
(* depends on the previous content of the output variable.                 *)
(***************************************************************************)
C32_ReportedWidth ==
    GotChar =>
        /\ getChar.offset \in 0..4
        /\ getChar.offset = 0 => ~ULt(getChar.position, sourceStream.size) /\ ret = EOF
        /\ ~ULt(getChar.position, sourceStream.size) => getChar.offset = 0 /\ ret = EOF
        /\ ret >= 0 => getChar.offset = BytesOf(ret, sourceStream.encoding)

\* C32, over a variable that held a non-zero value and inside the buffer: the
\* width of a codepoint returned is the number of its bytes, and the only
\* other width is the error code of a malformed sequence
C32_WidthStoredOverNonZero ==
    (GotChar /\ getChar.prior # 0 /\ ULt(getChar.position, sourceStream.size)) =>
        /\ ret >= 0 => getChar.offset = BytesOf(ret, sourceStream.encoding)
        /\ ret >= 0 => getChar.offset \in 1..4
        /\ ret < 0 => getChar.offset = UTF8_ERROR_INVALIDUTF8

\* C32, over a variable that held 0: nothing is stored
C32_NothingStoredOverZero ==
    (GotChar /\ getChar.prior = 0) => getChar.offset = 0
(***************************************************************************)
(* Reads over sources of more than one line: the text "ab\ncd" and others  *)
(* with a newline, read codepoint by codepoint.                            *)
(***************************************************************************)
AbCd == <<97, 98, EOL, 99, 100>>
LineContents == {AbCd, <<EOL, 97, EOL>>, <<228, 184, 173, EOL, 97>>}

InitLines == InitStreamOf(LineContents)

\* a read, with a guard on the reads recorded so far
LinesRead == Len(reads) <= Len(content) /\ SourceStreamRead

NextLines == LinesRead

SpecLines == InitLines /\ [][NextLines]_vars

\* (ch, co, ln) of a location
ChCoLn(l) == <<l.ch, l.co, l.ln>>

\* the stream location after each of the first four reads of "ab\ncd"
AbCdLocations == <<<<1, 1, 0>>, <<2, 2, 0>>, <<3, 0, 1>>, <<4, 1, 1>>>>

\* from the location l to the location m, the read of c, of w bytes: ch
\* moves by w; a newline sets the column to 0 and adds a line, any other
\* codepoint but NUL adds w to the column and leaves the line
MovedBy(l, m, c, w) ==
    /\ m.ch = l.ch + w
    /\ c = EOL => m.co = 0 /\ m.ln = l.ln + 1
    /\ (c # EOL /\ c # NUL) => m.co = l.co + w /\ m.ln = l.ln

(***************************************************************************)
(* C33: every cloxSourceStreamRead that returns a codepoint c of           *)
(* byte-width w increases stream.ch and forward.ch by w; if c is a newline *)
(* it sets column to 0 and increases line by 1, otherwise (c not NUL and   *)
(* not EOF) it increases column by w and leaves line unchanged; so reading *)
(* the text "ab\ncd" gives (ch, co, ln) = (1,1,0), (2,2,0), (3,0,1),       *)
(* (4,1,1) after the first four reads.                                     *)
(***************************************************************************)
C33_ReadMovesTheLocations ==
    [][IsRead =>
          /\ ret' >= 0 =>
                LET w == BytesOf(ret', sourceStream.encoding) IN
                /\ MovedBy(sourceStream.streamLocation, sourceStream'.streamLocation, ret', w)
                /\ MovedBy(sourceStream.forwardLocation, sourceStream'.forwardLocation, ret', w)
          /\ (content = AbCd /\ IsText /\ Len(reads') <= 4) =>
                ChCoLn(sourceStream'.streamLocation) = AbCdLocations[Len(reads')]]_vars

\* C33, for the stream location and a read that had the width stored (its
\* local offset held a non-zero value): the location moves as claimed
C33_StoredWidthMovesTheStreamLocation ==
    [][(/\ IsRead
        /\ ret' >= 0
        /\ sourceStream' = clox_SourceStreamRead(sourceStream, content, file, 1).st)
       => MovedBy(sourceStream.streamLocation, sourceStream'.streamLocation, ret',
                  BytesOf(ret', sourceStream.encoding))]_vars

\* C33, the example over the file "ab\ncd" when every read so far had the
\* width stored (ch is the number of reads): the locations are the claimed
C33_ExampleOverTheFile ==
    (/\ content = AbCd
     /\ IsFile
     /\ Len(reads) \in 1..4
     /\ sourceStream.streamLocation.ch = Len(reads))
        => ChCoLn(sourceStream.streamLocation) = AbCdLocations[Len(reads)]
(***************************************************************************)
(* Refills with a lexeme under way: the caller of the stream marks the     *)
(* start of the current lexeme in beginLocation, a field of the public     *)
(* CloxSourceStream_t, and goes on reading.                                *)
(***************************************************************************)
\* files of more than a page whose bytes all differ
LexemeContents == {[i \in 1..n |-> 96 + i] : n \in (CLOX_PAGESIZ + 1)..(2 * CLOX_PAGESIZ + 1)}

InitLexeme == InitStreamOf(LexemeContents) /\ IsFile

\* the next lexeme begins at the lookahead position
MarkBegin ==
    /\ Running
    /\ sourceStream.isInitialized
    /\ sourceStream.beginLocation # sourceStream.forwardLocation
    /\ sourceStream' = [sourceStream EXCEPT !.beginLocation = sourceStream.forwardLocation]
    /\ op' = "begin"
    /\ ret' = 0
    /\ before' = [op |-> op, ret |-> ret]
    /\ UNCHANGED <<othersOfStream, content, file, reads, fatal>>

\* a read, with a guard that stops the reads at the first EOF
LexemeRead == (IF reads = <<>> THEN TRUE ELSE Last(reads) # EOF) /\ SourceStreamRead

NextLexeme == LexemeRead \/ MarkBegin

SpecLexeme == InitLexeme /\ [][NextLexeme]_vars

\* the step is a read that refills a stream whose begin.ch is not 0
RefillsWithBegin ==
    /\ IsRead
    /\ clox_SourceStreamNeedsARefill(sourceStream, 0)
    /\ clox_SourceStreamRefill(sourceStream, content, file).ok
    /\ sourceStream.beginLocation.ch > 0

\* the bytes of st at [b, size) are the bytes of rf at [0, size - b)
MovedDown(st, rf, b) ==
    \A i \in 1..(st.size - b) : rf.data[i] = st.data[b + i]

\* the bytes at [size - b, size) of rf are the next bytes of the file, as far
\* as it has any
TailRead(st, rf, b, all, f) ==
    \A j \in 1..b : f.pos + j <= Len(all) => rf.data[st.size - b + j] = all[f.pos + j]

(***************************************************************************)
(* C34: when a refill happens on an open stream with begin.ch = b > 0, the *)
(* bytes that were at [b, size) are afterwards at [0, size - b) unchanged, *)
(* the newly read bytes occupy only the freed tail [size - b, size),       *)
(* forward.ch is decreased by b so that it designates the same byte as     *)
(* before, and begin.ch becomes 0.                                         *)
(***************************************************************************)
C34_RefillKeepsTheLexeme ==
    [][RefillsWithBegin =>
          LET b == sourceStream.beginLocation.ch
              rf == clox_SourceStreamRefill(sourceStream, content, file).st
          IN /\ sourceStream'.data = rf.data
             /\ MovedDown(sourceStream, rf, b)
             /\ TailRead(sourceStream, rf, b, content, file)
             /\ rf.forwardLocation.ch = sourceStream.forwardLocation.ch - b
             /\ rf.beginLocation.ch = 0
             /\ sourceStream'.beginLocation.ch = 0]_vars

\* C34, the locations alone: forward.ch is decreased by b and begin.ch
\* becomes 0
C34_RefillShiftsTheLocations ==
    [][RefillsWithBegin =>
          LET b == sourceStream.beginLocation.ch
              rf == clox_SourceStreamRefill(sourceStream, content, file).st
          IN /\ rf.forwardLocation.ch = sourceStream.forwardLocation.ch - b
             /\ rf.beginLocation.ch = 0
             /\ sourceStream'.beginLocation.ch = 0]_vars

\* C34, where the lexeme begins in the middle of the buffer, b = size - b:
\* the bytes are moved down and the tail is read as claimed
C34_RefillAtTheMiddle ==
    [][(RefillsWithBegin
          /\ sourceStream.beginLocation.ch + sourceStream.beginLocation.ch = sourceStream.size)
       => LET b == sourceStream.beginLocation.ch
              rf == clox_SourceStreamRefill(sourceStream, content, file).st
          IN /\ sourceStream'.data = rf.data
             /\ MovedDown(sourceStream, rf, b)
             /\ TailRead(sourceStream, rf, b, content, file)]_vars
(***************************************************************************)
(* cloxSourceStreamPeekOffset (lib/source/source_stream.c) next to the     *)
(* reads.                                                                  *)
(***************************************************************************)
\* return cloxSourceBufferGetChar(buffer, encoding, forwardLocation.ch + offset, NULL)
cloxSourceStreamPeekOffset(st, offset) ==
    cloxSourceBufferGetChar(st, st.forwardLocation.ch + offset).result

SourceStreamPeekOffset ==
    /\ Running
    /\ \E n \in 0..MaxOffset :
          /\ ret' = cloxSourceStreamPeekOffset(sourceStream, n)
          /\ getChar' = [NoGetChar EXCEPT !.position = sourceStream.forwardLocation.ch + n]
    /\ op' = "cloxSourceStreamPeekOffset"
    /\ before' = [op |-> op, ret |-> ret]
    /\ UNCHANGED <<bufVars, cbVars, rdVars, dsVars, ckVars, ssVars, ocVars, clVars, lvVars, skVars,
                 brVars, u8Vars, ldVars, raVars, fatal>>

NextPeekOffset == SourceStreamRead \/ SourceStreamPeekOffset

SpecPeekOffset == InitStream /\ [][NextPeekOffset]_vars

IsPeekOffset == op' = "cloxSourceStreamPeekOffset"

\* the offset the step's cloxSourceStreamPeekOffset was called with
PeekedOffset == getChar'.position - sourceStream.forwardLocation.ch

(***************************************************************************)
(* C35: cloxSourceStreamPeekOffset(stream, n) returns the codepoint that   *)
(* the last of n consecutive reads would return, i.e. the same value       *)
(* cloxSourceStreamReadOffset(stream, n) returns from the same state,      *)
(* refilling if needed, and it changes none of the three locations.        *)
(***************************************************************************)
C35_PeekOffsetIsReadOffset ==
    [][IsPeekOffset =>
          /\ \E gs \in [1..PeekedOffset -> Garbage] :
                ret' = cloxSourceStreamReadOffset(sourceStream, content, file, gs).result
          /\ Locations(sourceStream') = Locations(sourceStream)]_vars

\* C35, the frame alone: the peek at an offset changes nothing of the stream,
\* its three locations included, and nothing of the file
C35_PeekOffsetChangesNothing ==
    [][IsPeekOffset => sourceStream' = sourceStream /\ file' = file]_vars

\* C35, what is returned: the codepoint that begins n bytes after the forward
\* position in the buffer as it is, EOF from the end of the buffer on
C35_PeekOffsetDecodesAtTheByte ==
    [][IsPeekOffset =>
          ret' = IF ULt(getChar'.position, sourceStream.size)
                 THEN cloxSourceBufferGetChar(sourceStream, getChar'.position).result
                 ELSE EOF]_vars
(***************************************************************************)
(* The readers' operations together: the code block reader's get, top,     *)
(* peek and read (lib/vm/code_block.c) and the buffer reader's next, back  *)
(* and peek (lib/vm/buffer.c), each over a container filled before its     *)
(* reader was created.                                                     *)
(***************************************************************************)
\* the offsets cloxCodeBlockReaderPeek is called with
ReaderPeekOffsets == 0..MaxRead

\* cloxCodeBlockReaderTop and cloxCodeBlockReaderPeek on the reader r over
\* the block b: the abort, if any, and the bytes that can be returned
cloxCodeBlockReaderPeek(b, r, offset) ==
    IF ULt(r.index + offset, r.count)
    THEN IF InArray(b, r.index + offset)
         THEN [fatal |-> "", bytes |-> ReadCell(b.mem[r.index + offset + 1])]
         ELSE [fatal |-> "memory fault", bytes |-> {0}]
    ELSE [fatal |-> "index out of bounds", bytes |-> {0}]

cloxCodeBlockReaderTop(b, r) ==
    IF ULt(r.index, r.count)
    THEN IF InArray(b, r.index)
         THEN [fatal |-> "", bytes |-> ReadCell(b.mem[r.index + 1])]
         ELSE [fatal |-> "memory fault", bytes |-> {0}]
    ELSE [fatal |-> "buffer overrun", bytes |-> {0}]

ReadersBlockPush ==
    /\ ~reader.live
    /\ ULt(codeBlock.count, MaxHeld)
    /\ CodeBlockPushOf(Bytes)

CodeBlockReaderTop ==
    /\ Running
    /\ reader.live
    /\ LET r == cloxCodeBlockReaderTop(codeBlock, reader)
       IN /\ fatal' = r.fatal
          /\ \E v \in r.bytes : ret' = v
    /\ op' = "cloxCodeBlockReaderTop"
    /\ UNCHANGED <<rdVars, othersOfReader>>

CodeBlockReaderPeek ==
    /\ Running
    /\ reader.live
    /\ \E offset \in ReaderPeekOffsets :
          LET r == cloxCodeBlockReaderPeek(codeBlock, reader, offset)
          IN /\ fatal' = r.fatal
             /\ \E v \in r.bytes : ret' = v
    /\ op' = "cloxCodeBlockReaderPeek"
    /\ UNCHANGED <<rdVars, othersOfReader>>

\* cloxBufferReaderPeek: array[index], or index out of bounds
BufferReaderPeek ==
    /\ Running
    /\ bufferReader.state = "live"
    /\ IF ULt(bufferReader.index, bufferReader.count)
       THEN IF InArray(buffer, bufferReader.index) /\ frees = 0
            THEN /\ \E v \in ReadCell(buffer.mem[bufferReader.index + 1]) : ret' = v
                 /\ fatal' = ""
            ELSE /\ ret' = 0
                 /\ fatal' = "memory fault"
       ELSE /\ ret' = 0
            /\ fatal' = "index out of bounds"
    /\ op' = "cloxBufferReaderPeek"
    /\ UNCHANGED <<buffer, brVars, othersOfBorrow>>

\* cloxBufferReaderBack: array[--index], or buffer underrun
BufferReaderBack ==
    /\ Running
    /\ bufferReader.state = "live"
    /\ IF ULt(0, bufferReader.index)
       THEN IF InArray(buffer, bufferReader.index - 1) /\ frees = 0
            THEN /\ \E v \in ReadCell(buffer.mem[bufferReader.index]) : ret' = v
                 /\ bufferReader' = [bufferReader EXCEPT !.index = bufferReader.index - 1]
                 /\ fatal' = ""
            ELSE /\ ret' = 0
                 /\ fatal' = "memory fault"
                 /\ UNCHANGED bufferReader
       ELSE /\ ret' = 0
            /\ fatal' = "buffer underrun"
            /\ UNCHANGED bufferReader
    /\ op' = "cloxBufferReaderBack"
    /\ UNCHANGED <<buffer, frees, ownerGone, othersOfBorrow>>

NextReaders ==
    \/ ReadersBlockPush
    \/ CreateCodeBlockReader
    \/ CodeBlockReaderGet
    \/ CodeBlockReaderTop
    \/ CodeBlockReaderPeek
    \/ CodeBlockReaderRead
    \/ BorrowPush
    \/ CreateBufferReader
    \/ BufferReaderNext
    \/ BufferReaderBack
    \/ BufferReaderPeek

SpecReaders == InitCodeBlock /\ [][NextReaders]_vars

BlockReaderOps ==
    {"cloxCodeBlockReaderGet", "cloxCodeBlockReaderTop", "cloxCodeBlockReaderPeek",
     "cloxCodeBlockReaderRead"}
BufferReaderOps == {"cloxBufferReaderNext", "cloxBufferReaderBack", "cloxBufferReaderPeek"}

\* 0 <= index <= count, and the index is where it was after an abort
IndexKept(r, after, aborted) ==
    /\ ULe(after.index, after.count)
    /\ after.index >= 0
    /\ aborted => after.index = r.index

\* the step is a call of cloxCodeBlockReaderPeek at the offset
IsReaderPeek(offset) ==
    /\ op' = "cloxCodeBlockReaderPeek"
    /\ fatal' = cloxCodeBlockReaderPeek(codeBlock, reader, offset).fatal
    /\ ret' \in cloxCodeBlockReaderPeek(codeBlock, reader, offset).bytes

\* the array positions a cloxCodeBlockReaderRead of count bytes reads
ReadPositions(r, count) ==
    {ReadPosition(r.index, j) :
        j \in 0..((IF ULt(r.index, r.count) THEN Available(r, count) ELSE 0) - 1)}

\* the one-byte operations: a byte is returned from below count only, and
\* moving past an end aborts with the index left alone
OneByteOpsInBounds ==
    /\ op' \in {"cloxCodeBlockReaderGet", "cloxCodeBlockReaderTop"}
          => /\ fatal' = "" => ULt(reader.index, reader.count)
             /\ ~ULt(reader.index, reader.count) => fatal' = "buffer overrun"
    /\ \A offset \in ReaderPeekOffsets :
          (IsReaderPeek(offset) /\ fatal' = "") => ULt(reader.index + offset, reader.count)
    /\ (op' \in {"cloxBufferReaderNext", "cloxBufferReaderPeek"} /\ fatal' = "")
          => ULt(bufferReader.index, bufferReader.count)
    /\ (op' = "cloxBufferReaderNext" /\ ~ULt(bufferReader.index, bufferReader.count))
          => fatal' = "buffer overrun"
    /\ op' = "cloxBufferReaderBack"
          => /\ fatal' = "" => /\ bufferReader.index > 0
                               /\ ULt(bufferReader.index - 1, bufferReader.count)
             /\ bufferReader.index = 0 => fatal' = "buffer underrun"

(***************************************************************************)
(* C36: for every reader operation (cloxCodeBlockReaderGet,                *)
(* cloxCodeBlockReaderTop, cloxCodeBlockReaderPeek,                        *)
(* cloxCodeBlockReaderRead, cloxBufferReaderNext, cloxBufferReaderBack,    *)
(* cloxBufferReaderPeek), 0 <= index <= count holds afterwards and no      *)
(* array position >= count is ever read; an attempt to move past either    *)
(* end is a fatal error that leaves index unchanged.                       *)
(***************************************************************************)
C36_ReadersStayInBounds ==
    [][/\ op' \in BlockReaderOps => IndexKept(reader, reader', fatal' # "")
       /\ op' \in BufferReaderOps => IndexKept(bufferReader, bufferReader', fatal' # "")
       /\ OneByteOpsInBounds
       /\ \A count \in ReadCounts :
             IsBulkRead(count) =>
                \A p \in ReadPositions(reader, count) : ULt(p, reader.count)]_vars

\* C36 without cloxCodeBlockReaderRead's positions: the index stays within
\* 0..count after each of the seven operations, and the six one-byte
\* operations read below count only and abort at the ends
C36_IndexesStayInBounds ==
    [][/\ op' \in BlockReaderOps => IndexKept(reader, reader', fatal' # "")
       /\ op' \in BufferReaderOps => IndexKept(bufferReader, bufferReader', fatal' # "")
       /\ OneByteOpsInBounds]_vars

\* C36, the first byte of a cloxCodeBlockReaderRead: it is read from below
\* count
C36_ReadStartsBelowCount ==
    [][\A count \in ReadCounts :
          (IsBulkRead(count) /\ ret' > 0) => ULt(ReadPosition(reader.index, 0), reader.count)]_vars
(***************************************************************************)
(* cloxBufferExpand and cloxBufferShrink (lib/vm/buffer.c) where the       *)
(* arithmetic on the capacity wraps.                                       *)
(***************************************************************************)
\* the step is a call of cloxBufferShrink, of cloxBufferExpand, with the offset
IsShrink(offset) ==
    /\ op' = "cloxBufferShrink"
    /\ \E z \in ZeroSizeResults :
          /\ buffer' = cloxBufferShrink(buffer, offset, z).b
          /\ fatal' = cloxBufferShrink(buffer, offset, z).fatal

IsExpand(offset) ==
    /\ op' = "cloxBufferExpand"
    /\ \E z \in ZeroSizeResults :
          /\ buffer' = cloxBufferExpand(buffer, offset, z).b
          /\ fatal' = cloxBufferExpand(buffer, offset, z).fatal

\* capacity + offset does not fit the size type: the sum of the unsigned
\* values wraps
SumWraps(capacity, offset) == ULt(capacity + offset, capacity)

(***************************************************************************)
(* C37: cloxBufferShrink with an offset greater than the current capacity, *)
(* and cloxBufferExpand whose capacity + offset exceeds the range of the   *)
(* size type, fail with a fatal underflow/overflow error and never resize  *)
(* the buffer to a wrapped-around capacity or leave count > capacity.      *)
(***************************************************************************)
C37_WrapIsFatal ==
    [][\A offset \in Offsets :
          /\ (IsShrink(offset) /\ ULt(buffer.capacity, offset))
                => /\ fatal' = "buffer underflow"
                   /\ buffer'.capacity = buffer.capacity
                   /\ ULe(buffer.count, buffer.capacity) => ULe(buffer'.count, buffer'.capacity)
          /\ (IsExpand(offset) /\ SumWraps(buffer.capacity, offset))
                => /\ fatal' = "buffer overflow"
                   /\ buffer'.capacity = buffer.capacity
                   /\ ULe(buffer.count, buffer.capacity) => ULe(buffer'.count, buffer'.capacity)]_vars

\* C37, the one underflow the code tests: a shrink of a buffer of capacity 0
\* fails with buffer underflow and leaves the buffer alone
C37_ShrinkOfNoCapacityUnderflows ==
    [][(op' = "cloxBufferShrink" /\ buffer.capacity = 0)
          => fatal' = "buffer underflow" /\ buffer' = buffer]_vars

\* C37, offsets within the capacity: a shrink by at most the capacity wraps
\* nothing, the capacity does not grow and count stays within it
C37_ShrinkWithinCapacity ==
    [][\A offset \in Offsets :
          (/\ IsShrink(offset)
           /\ ULt(0, buffer.capacity)
           /\ ULe(offset, buffer.capacity)
           /\ ULe(buffer.count, buffer.capacity))
             => /\ fatal' \in {"", "cannot reallocate memory"}
                /\ ULe(buffer'.capacity, buffer.capacity)
                /\ ULe(buffer'.count, buffer'.capacity)]_vars
(***************************************************************************)
(* cloxCodeBlockResize to the capacity the block has, cloxCodeBlockExpand  *)
(* by 0 and cloxCodeBlockWrite of no bytes (lib/vm/code_block.c).          *)
(***************************************************************************)
\* the step is one of the three calls that ask for the capacity the block has
IsResizeToCapacity ==
    \/ /\ op' = "cloxCodeBlockResize"
       /\ \E z \in ZeroSizeResults :
             /\ codeBlock' = cloxCodeBlockResize(codeBlock, codeBlock.capacity, z).b
             /\ fatal' = cloxCodeBlockResize(codeBlock, codeBlock.capacity, z).fatal
    \/ /\ op' = "cloxCodeBlockExpand"
       /\ \E z \in ZeroSizeResults :
             /\ codeBlock' = cloxCodeBlockExpand(codeBlock, 0, z).b
             /\ fatal' = cloxCodeBlockExpand(codeBlock, 0, z).fatal
    \/ /\ op' = "cloxCodeBlockWrite"
       /\ \E z \in ZeroSizeResults, a \in BOOLEAN :
             /\ codeBlock' = cloxCodeBlockWrite(codeBlock, <<>>, z, a).b
             /\ fatal' = cloxCodeBlockWrite(codeBlock, <<>>, z, a).fatal

\* count and the bytes below it are the same in the two blocks
SameStored(b, c) ==
    /\ c.count = b.count
    /\ \A i \in 1..Len(b.mem) : i <= b.count => (i <= Len(c.mem) /\ c.mem[i] = b.mem[i])

(***************************************************************************)
(* C38: resizing a code block to its current capacity changes nothing:     *)
(* cloxCodeBlockResize(block, capacity), cloxCodeBlockExpand(block, 0) and *)
(* cloxCodeBlockWrite(block, bytes, 0) leave count and every stored byte   *)
(* unchanged in every state, including when count equals capacity.         *)
(***************************************************************************)
C38_ResizeToCapacityChangesNothing ==
    [][IsResizeToCapacity => SameStored(codeBlock, codeBlock')]_vars

\* C38, below the capacity: with count < capacity the three calls leave the
\* whole block as it was and do not abort
C38_NothingChangesBelowCapacity ==
    [][(IsResizeToCapacity /\ ULt(codeBlock.count, codeBlock.capacity))
          => codeBlock' = codeBlock /\ fatal' = ""]_vars

\* C38, at the capacity: with count = capacity > 0 the three calls succeed
\* and leave count = capacity - 1, the last stored byte dropped
C38_FullBlockLosesItsLastByte ==
    [][(IsResizeToCapacity /\ codeBlock.count = codeBlock.capacity /\ codeBlock.capacity > 0)
          => /\ fatal' = ""
             /\ codeBlock'.count = codeBlock.capacity - 1
             /\ codeBlock'.capacity = codeBlock.capacity
             /\ codeBlock'.mem = codeBlock.mem]_vars
(***************************************************************************)
(* cloxCreateSourceBufferFromStream (lib/source/source_buffer.c): the size *)
(* of the file, the allocation of the data array, the page-sized reads and *)
(* the sentinel, one step each.                                            *)
(***************************************************************************)
\* the longest file loaded: two pages and a byte
MaxFile == 2 * CLOX_PAGESIZ + 1
\* the bytes of the files loaded
FileBytes == {97, 98}

RECURSIVE FilesOf(_)
FilesOf(n) ==
    IF n = 0
    THEN {<<>>}
    ELSE {Append(t, c) : t \in FilesOf(n - 1), c \in FileBytes}

FileTexts(longest) == UNION {FilesOf(n) : n \in 0..longest}

\* size = fgetsiz(stream); cloxCreateSourceBuffer(size, NULL, 0): the data
\* array is dim(byte_t, size), a checked calloc of size bytes
LoadCreate ==
    /\ Running
    /\ load.pc = "none"
    /\ \E text \in FileTexts(MaxFile), z \in ZeroSizeResults :
          LET size == Len(text) IN
          IF size = 0 /\ z = NULL
          THEN /\ load' = [load EXCEPT !.pc = "failed"]
               /\ fatal' = "cannot allocate memory"
          ELSE /\ load' = [size |-> size, text |-> text, data |-> Zeros(size), fpos |-> 0,
                           pc |-> "read", stored |-> {}]
               /\ fatal' = ""
    /\ op' = "cloxCreateSourceBufferFromStream"
    /\ ret' = 0
    /\ UNCHANGED <<bufVars, cbVars, rdVars, dsVars, ckVars, ssVars, ocVars, hsVars, clVars, lvVars,
                 skVars, brVars, u8Vars, gcVars, raVars>>

\* fpos += fread(p + fpos, 1, min(CLOX_PAGESIZ, size - fpos), stream), repeated
\* while (fpos < size): the body runs once before the first test
LoadRead ==
    /\ Running
    /\ load.pc = "read"
    /\ LET n == Min(CLOX_PAGESIZ, load.size - load.fpos)
           fpos == load.fpos + n
       IN load' = [load EXCEPT
                      !.data = [i \in 1..Len(load.data) |->
                                   IF load.fpos < i /\ i <= fpos THEN load.text[i]
                                                                 ELSE load.data[i]],
                      !.stored = load.stored \cup {i - 1 : i \in (load.fpos + 1)..fpos},
                      !.fpos = fpos,
                      !.pc = IF fpos < load.size THEN "read" ELSE "sentinel"]
    /\ UNCHANGED <<bufVars, cbVars, rdVars, dsVars, ckVars, ssVars, ocVars, hsVars, clVars, lvVars,
                 skVars, brVars, u8Vars, gcVars, raVars, fatal, op, ret>>

\* p[fpos] = NUL; a store outside the array is undefined: the process goes on
\* or faults
LoadSentinel ==
    /\ Running
    /\ load.pc = "sentinel"
    /\ load' = [load EXCEPT
                   !.data = [i \in 1..Len(load.data) |->
                                IF i = load.fpos + 1 THEN NUL ELSE load.data[i]],
                   !.stored = load.stored \cup {load.fpos},
                   !.pc = "done"]
    /\ IF load.fpos < Len(load.data)
       THEN fatal' = ""
       ELSE fatal' \in {"", "memory fault"}
    /\ UNCHANGED <<bufVars, cbVars, rdVars, dsVars, ckVars, ssVars, ocVars, hsVars, clVars, lvVars,
                 skVars, brVars, u8Vars, gcVars, raVars, op, ret>>

InitLoad == InitBuffer /\ buffer = EmptyBlock /\ load.pc = "none"

NextLoad == LoadCreate \/ LoadRead \/ LoadSentinel

SpecLoad == InitLoad /\ [][NextLoad]_vars

(***************************************************************************)
(* C39: cloxCreateSourceBufferFromStream writes only at indices < size of  *)
(* the data array it allocated, the sentinel zero byte included, for every *)
(* file length including 0.                                                *)
(***************************************************************************)
C39_StoresBelowSize ==
    \A i \in load.stored : i >= 0 /\ i < Len(load.data)

\* C39, the reads: before the sentinel every store is below size, and once
\* the reads are over the array holds the file, byte for byte
C39_ReadsStayBelowSize ==
    /\ load.pc \in {"read", "sentinel"} => load.stored = {i - 1 : i \in 1..load.fpos}
    /\ load.fpos <= load.size
    /\ load.pc = "sentinel" => load.fpos = load.size /\ load.data = load.text

\* C39, the sentinel: it is stored at index size, one past the last byte of
\* the array, for every file length
C39_SentinelAtSize ==
    load.pc = "done" => /\ load.stored = {i : i \in 0..load.size}
                        /\ load.data = load.text
(***************************************************************************)
(* A code block reader next to its owner (lib/vm/code_block.c): the reader *)
(* copies the block's array pointer and count, and the block is pushed to  *)
(* afterwards.  A push that grows the block reallocates the array; whether *)
(* realloc extends it in place or moves it, releasing the old array, is    *)
(* the allocator's choice.                                                 *)
(***************************************************************************)
\* cloxCreateCodeBlockReader, with the array the reader now points to
SharedCreateReader ==
    /\ Running
    /\ ~reader.live
    /\ reader' = cloxInitCodeBlockReader(codeBlock)
    /\ readerArray' = [mem |-> codeBlock.mem, released |-> FALSE, held |-> Contents(codeBlock)]
    /\ got' = <<>>
    /\ op' = "cloxCreateCodeBlockReader"
    /\ ret' = 0
    /\ UNCHANGED <<bufVars, cbVars, dsVars, ckVars, ssVars, ocVars, hsVars, clVars, lvVars,
                 skVars, brVars, u8Vars, gcVars, ldVars, fatal>>

\* cloxCodeBlockPush on the owner while the reader lives
SharedPush ==
    /\ Running
    /\ reader.live
    /\ ULt(codeBlock.count, MaxPush)
    /\ \E v \in Bytes, z \in ZeroSizeResults, moved \in BOOLEAN :
          LET r == cloxCodeBlockPush(codeBlock, v, z)
              \* the push called redim on an array, and redim did not abort
              grown == /\ codeBlock.capacity # 0
                       /\ ULe(codeBlock.capacity, codeBlock.count)
                       /\ r.fatal # "cannot reallocate memory"
          IN /\ codeBlock' = r.b
             /\ fatal' = r.fatal
             /\ readerArray' =
                   IF readerArray.released
                   THEN readerArray
                   ELSE IF grown /\ moved
                        THEN [readerArray EXCEPT !.released = TRUE]
                        ELSE [readerArray EXCEPT !.mem = r.b.mem]
    /\ op' = "cloxCodeBlockPush"
    /\ ret' = 0
    /\ UNCHANGED <<bufVars, rdVars, dsVars, ckVars, ssVars, ocVars, hsVars, clVars, lvVars,
                 skVars, brVars, u8Vars, gcVars, ldVars>>

\* cloxCodeBlockReaderGet through the pointer the reader copied: a read of a
\* released array is undefined and yields any byte or a fault
SharedGet ==
    /\ Running
    /\ reader.live
    /\ op' = "cloxCodeBlockReaderGet"
    /\ IF ULt(reader.index, reader.count)
       THEN \/ /\ \E v \in (IF readerArray.released
                            THEN ReadCell(Junk)
                            ELSE ReadCell(readerArray.mem[reader.index + 1])) :
                     ret' = v
               /\ reader' = [reader EXCEPT !.index = reader.index + 1]
               /\ fatal' = ""
            \/ /\ readerArray.released
               /\ ret' = 0
               /\ fatal' = "memory fault"
               /\ UNCHANGED reader
       ELSE /\ ret' = 0
            /\ fatal' = "buffer overrun"
            /\ UNCHANGED reader
    /\ UNCHANGED <<got, bufVars, cbVars, dsVars, ckVars, ssVars, ocVars, hsVars, clVars, lvVars,
                 skVars, brVars, u8Vars, gcVars, ldVars, raVars>>

NextShared ==
    \/ ReaderSetupPush
    \/ SharedCreateReader
    \/ SharedPush
    \/ SharedGet

SpecShared == InitCodeBlock /\ [][NextShared]_vars

\* the step is a cloxCodeBlockReaderGet that reads a byte
IsSharedGet ==
    /\ op' = "cloxCodeBlockReaderGet"
    /\ reader.live
    /\ ULt(reader.index, reader.count)

(***************************************************************************)
(* C40: a reader created over a code block stays valid while the block is  *)
(* pushed to afterwards: in every interleaving of cloxCodeBlockPush calls  *)
(* on the owner (including pushes that reallocate the array) with          *)
(* cloxCodeBlockReaderGet calls on the reader, the reader never reads from *)
(* an array the block has released, and every byte it returns is the byte  *)
(* the block held at that index when the reader was created.               *)
(***************************************************************************)
C40_ReaderStaysValid ==
    [][IsSharedGet => /\ ~readerArray.released
                      /\ fatal' = ""
                      /\ ret' = readerArray.held[reader.index + 1]]_vars

\* C40, while no push has moved the array: the reader returns the byte the
\* block held at that index when the reader was created, pushes in between
\* or not
C40_ValidUntilTheArrayMoves ==
    [][(IsSharedGet /\ ~readerArray.released)
          => /\ fatal' = ""
             /\ ret' = readerArray.held[reader.index + 1]
             /\ reader'.index = reader.index + 1]_vars

\* C40, the reader's own fields: the count it copied is the count at creation
\* whatever is pushed afterwards, and the array is released by a push that
\* grows the block only
C40_ReleasedByAGrowingPushOnly ==
    /\ reader.live => reader.count = Len(readerArray.held)
    /\ readerArray.released => /\ reader.live
                               /\ ULt(reader.count, codeBlock.capacity)

=============================================================================
